---- MODULE Spec2Model ----
(***************************************************************************)
(* The authorization decision core of casbin's Enforcer: the enforce       *)
(* pipeline, LoadPolicy and the operations that change the state enforce   *)
(* reads.  The Enforcer struct is the record e, role managers are objects  *)
(* of the heap rms, and every handler is a sequence of steps over them:    *)
(* Spec runs each handler to completion (one caller), SpecConc lets a      *)
(* decision and a reload interleave at their reads and writes of e.        *)
(***************************************************************************)
EXTENDS Integers, Sequences, FiniteSets, TLC

\* ------------------------------------------------------------- bounds

\* Role-manager objects that may be alive at once.
MaxRM == 3

\* ------------------------------------------------------------ vocabulary

Nil == "nil"
NoRM == 0

Allow == "Allow"
Indeterminate == "Indeterminate"
Deny == "Deny"
\* The value of a declared and never assigned effector.Effect.
ZeroEffect == Allow

E_ALLOW == "some(where (p_eft == allow))"
E_DENY == "!some(where (p_eft == deny))"

ErrPanic == "panic"
ErrCompile == "compile error"
ErrRequestSize == "invalid request size"
ErrPolicySize == "invalid policy size"
ErrEval == "evaluation error"
ErrResultType == "matcher result should be bool, int or float"
ErrEvalNoPolicy == "please make sure rule exists in policy when using eval() in matcher"
ErrUnsupportedEffect == "unsupported effect"
ErrAdapter == "adapter error"
ErrEmptyPath == "invalid file path, file path cannot be empty"
ErrSort == "sort error"
ErrClear == "role manager clear error"
ErrBuild == "build role links error"
ErrNotFiltered == "filtered policies are not supported by this adapter"
ErrSaveFiltered == "cannot save a filtered policy"
ErrSave == "save error"
ErrWatcher == "watcher error"

\* An attribute name r_sub, p2_obj, ... is the pair <<assertion key, attribute>>.
Tok(key, attr) == <<key, attr>>

\* The first byte of an attribute name, which enforceParameters.Get switches on.
FirstByte(name) ==
    IF name[1] \in {"r", "r2"} THEN "r"
    ELSE IF name[1] \in {"p", "p2"} THEN "p"
    ELSE "other"

\* The tokens of an expression source, in the order of the text.
V(name) == [k |-> "var", f |-> "", n |-> name, a |-> << >>]
PathTok(name, path) == [k |-> "path", f |-> path, n |-> name, a |-> << >>]
Lit(s) == [k |-> "lit", f |-> s, n |-> << >>, a |-> << >>]
BoolLit(b) == [k |-> "bool", f |-> b, n |-> << >>, a |-> << >>]
Call(fn, args) == [k |-> "call", f |-> fn, n |-> << >>, a |-> args]
Op(o) == [k |-> "op", f |-> o, n |-> << >>, a |-> << >>]
\* a number, written as its text
NumLit(x) == [k |-> "num", f |-> x, n |-> << >>, a |-> << >>]

\* m = g(r.sub, p.sub) && regexMatch(r.obj, p.obj)
M_RBAC ==
    << Call("g", <<Tok("r", "sub"), Tok("p", "sub")>>), Op("&&"),
       Call("regexMatch", <<Tok("r", "obj"), Tok("p", "obj")>>) >>
\* m2 = eval(p2.sub_rule) && r2.obj == p2.obj
M_EVAL2 ==
    << Call("eval", <<Tok("p2", "sub_rule")>>), Op("&&"),
       V(Tok("r2", "obj")), Op("=="), V(Tok("p2", "obj")) >>
\* m = eval(p.sub) && r.obj == p.obj
M_EVAL ==
    << Call("eval", <<Tok("p", "sub")>>), Op("&&"),
       V(Tok("r", "obj")), Op("=="), V(Tok("p", "obj")) >>
\* m = r.sub.name == p.sub && r.obj == p.obj
M_JSON ==
    << PathTok(Tok("r", "sub"), "name"), Op("=="), V(Tok("p", "sub")), Op("&&"),
       V(Tok("r", "obj")), Op("=="), V(Tok("p", "obj")) >>
\* m = r.sub.name == p.sub && r.obj.name == p.obj
M_JSON2 ==
    << PathTok(Tok("r", "sub"), "name"), Op("=="), V(Tok("p", "sub")), Op("&&"),
       PathTok(Tok("r", "obj"), "name"), Op("=="), V(Tok("p", "obj")) >>
M_TRUE == << BoolLit("true") >>
M_FALSE == << BoolLit("false") >>
\* a source the expression parser rejects
M_BAD == << V(Tok("r", "sub")), Op("==") >>
\* a source whose value is a string
M_STR == << V(Tok("r", "sub")) >>
\* sources whose value is a number
M_ONE == << NumLit("1") >>
M_ZERO == << NumLit("0") >>
\* eval(p2.sub_rule): the value of the rule of the tuple
M_EVALP2 == << Call("eval", <<Tok("p2", "sub_rule")>>) >>
\* p2.obj: a field of the tuple, a string
M_POBJ == << V(Tok("p2", "obj")) >>
\* the matcher argument "" of enforce: use the model's matcher
NoMatcher == << >>

J_ALICE == "{\"name\": \"alice\"}"
J_DATA1 == "{\"name\": \"data1\"}"
RULE_ALICE == "r2.sub == \"alice\""
BadRegex == "("

\* ------------------------------------------------------ role managers

\* defaultrolemanager.NewRoleManager(10): the depth of the reachability search.
MaxHierarchyLevel == 10

RECURSIVE Reach(_, _, _)
Reach(links, from, depth) ==
    IF depth = 0 THEN from
    ELSE LET next == from \cup {l[2] : l \in {x \in links : x[1] \in from}}
         IN IF next = from THEN from ELSE Reach(links, next, depth - 1)

\* RoleManager.HasLink: name1 reaches name2 over the has-role edges.
HasLink(links, name1, name2) ==
    name1 = name2 \/ name2 \in Reach(links, {name1}, MaxHierarchyLevel)

\* util.GenerateGFunction(rm): the function g of a matcher, bound to the role
\* manager object rm of the heap R (a nil rm has no edges).
GenerateGFunction(R, rm, name1, name2) ==
    HasLink(IF rm = NoRM THEN {} ELSE R[rm].links, name1, name2)

\* The edges Assertion.buildRoleLinks adds for the rules of a g assertion.
LinksOf(policy) == {<<policy[i][1], policy[i][2]>> : i \in 1..Len(policy)}

\* ------------------------------------------------- expression engine

BoolStr(b) == IF b THEN "true" ELSE "false"
Val(t, v) == [t |-> t, v |-> v]

\* The name -> position map enforce builds from an assertion's Tokens: the
\* last position of a repeated name wins; -1 stands for "not in the map".
TokenIndex(tokens, name) ==
    LET at == {i \in 1..Len(tokens) : tokens[i] = name}
    IN IF at = {} THEN -1 ELSE (CHOOSE i \in at : \A j \in at : j <= i) - 1

\* enforceParameters.Get
enforceParametersGet(par, name) ==
    CASE FirstByte(name) = "p" ->
           LET i == TokenIndex(par.pTokens, name)
           IN IF i = -1 THEN Val("err", ErrEval)
              ELSE IF i >= Len(par.pVals) THEN Val("panic", ErrPanic)
              ELSE Val("str", par.pVals[i + 1])
      [] FirstByte(name) = "r" ->
           LET i == TokenIndex(par.rTokens, name)
           IN IF i = -1 THEN Val("err", ErrEval)
              ELSE IF i >= Len(par.rVals) THEN Val("panic", ErrPanic)
              ELSE Val("str", par.rVals[i + 1])
      [] OTHER -> Val("err", ErrEval)

\* RegexMatch: regexp.MatchString(key2, key1), a panic on a pattern that does
\* not compile.  The patterns of the model are literal texts none of which is
\* part of another, so a pattern matches its own text, and "" matches all.
RegexMatch(key1, key2) ==
    IF key2 = BadRegex THEN Val("panic", ErrPanic)
    ELSE Val("bool", BoolStr(key2 = "" \/ key1 = key2))

\* util.EscapeAssertion and the expression parser, on the text of a policy
\* field handed to eval(): r2.sub == "alice" is the only rule text that parses
\* to a comparison, "1" and "0" are numbers; any other non-empty word is a
\* lone identifier.
ParseRule(text) ==
    IF text = RULE_ALICE THEN << V(Tok("r2", "sub")), Op("=="), Lit("alice") >>
    ELSE IF text = "1" THEN M_ONE
    ELSE IF text = "0" THEN M_ZERO
    ELSE IF text \in {"", BadRegex} THEN M_BAD
    ELSE << V(Tok("other", text)) >>

RECURSIVE SplitAnd(_)
\* The operands of the top-level && of a source.
SplitAnd(src) ==
    IF src = << >> THEN << << >> >>
    ELSE LET rest == SplitAnd(Tail(src))
         IN IF Head(src) = Op("&&") THEN << << >> >> \o rest
            ELSE << <<Head(src)>> \o rest[1] >> \o Tail(rest)

IsAtom(tok) == tok.k \in {"var", "path", "lit", "bool", "num", "call"}

ClauseParses(c) ==
    \/ Len(c) = 1 /\ IsAtom(c[1])
    \/ Len(c) = 3 /\ IsAtom(c[1]) /\ c[2] = Op("==") /\ IsAtom(c[3])

CalledFunctions(src) == {src[i].f : i \in {j \in 1..Len(src) : src[j].k = "call"}}

\* govaluate.NewEvaluableExpressionWithFunctions succeeds on src with table fns.
Compiles(src, fns) ==
    /\ \A i \in 1..Len(SplitAnd(src)) : ClauseParses(SplitAnd(src)[i])
    /\ CalledFunctions(src) \subseteq DOMAIN fns

RECURSIVE Evaluate(_, _, _, _)

\* generateEvalFunction: eval(subrule) compiles the rule text with the same
\* function table and evaluates it with the decision's parameters.
generateEvalFunction(R, fns, par, args) ==
    IF Len(args) # 1 THEN Val("err", ErrEval)
    ELSE LET expression == ParseRule(args[1])
         IN IF ~Compiles(expression, fns) THEN Val("err", ErrEval)
            ELSE Evaluate(R, expression, fns, par)

\* The first argument value that is an error or a panic, if any.
ArgFault(vals) ==
    LET bad == {i \in 1..Len(vals) : vals[i].t \in {"err", "panic"}}
    IN IF bad = {} THEN Val("ok", "") ELSE vals[CHOOSE i \in bad : \A j \in bad : i <= j]

\* A call of the function fn of the table on the argument values vals.
Apply(R, fn, fns, par, vals) ==
    LET fault == ArgFault(vals)
    IN IF fault.t # "ok" THEN fault
       ELSE CASE fn.kind = "g" ->
                   IF Len(vals) < 2 THEN Val("err", ErrEval)
                   ELSE Val("bool", BoolStr(GenerateGFunction(R, fn.rm, vals[1].v, vals[2].v)))
              [] fn.kind = "regexMatch" ->
                   IF Len(vals) # 2 THEN Val("err", ErrEval)
                   ELSE RegexMatch(vals[1].v, vals[2].v)
              [] fn.kind = "eval" ->
                   generateEvalFunction(R, fns, par, [i \in 1..Len(vals) |-> vals[i].v])
              [] fn.kind = "user" -> Val("bool", "true")
              [] OTHER -> Val("err", ErrEval)

CallValue(R, tok, fns, par) ==
    Apply(R, fns[tok.f], fns, par,
          [i \in 1..Len(tok.a) |-> enforceParametersGet(par, tok.a[i])])

AtomValue(R, tok, fns, par) ==
    CASE tok.k = "bool" -> Val("bool", tok.f)
      [] tok.k = "lit" -> Val("str", tok.f)
      [] tok.k = "num" -> Val("num", tok.f)
      [] tok.k = "var" -> enforceParametersGet(par, tok.n)
      [] tok.k = "call" -> CallValue(R, tok, fns, par)
      [] OTHER -> Val("err", ErrEval)

\* l == r
Compare(l, r) ==
    IF l.t \in {"err", "panic"} THEN l
    ELSE IF r.t \in {"err", "panic"} THEN r
    ELSE Val("bool", BoolStr(l = r))

ClauseValue(R, c, fns, par) ==
    IF Len(c) = 1 THEN AtomValue(R, c[1], fns, par)
    ELSE Compare(AtomValue(R, c[1], fns, par), AtomValue(R, c[3], fns, par))

RECURSIVE AndValue(_, _, _, _)

\* v && ...: the right operand is not evaluated once the left one is false;
\* an operand that is not a boolean is an error.
AndRest(v, R, clauses, fns, par) ==
    IF v.t \in {"err", "panic"} THEN v
    ELSE IF v.t # "bool" THEN Val("err", ErrEval)
    ELSE IF v.v = "false" \/ Len(clauses) = 1 THEN v
    ELSE AndValue(R, Tail(clauses), fns, par)

\* a && b && ..., left to right.
AndValue(R, clauses, fns, par) ==
    AndRest(ClauseValue(R, Head(clauses), fns, par), R, clauses, fns, par)

\* expression.Eval(parameters)
Evaluate(R, src, fns, par) ==
    LET clauses == SplitAnd(src)
    IN IF Len(clauses) = 1 THEN ClauseValue(R, clauses[1], fns, par)
       ELSE AndValue(R, clauses, fns, par)

\* util.HasEval(expString)
HasEval(src) == "eval" \in CalledFunctions(src)

\* The attribute names a source mentions.
Mentioned(src) ==
    {src[i].n : i \in {j \in 1..Len(src) : src[j].k \in {"var", "path"}}}
        \cup UNION {{src[i].a[j] : j \in 1..Len(src[i].a)} :
                        i \in {j \in 1..Len(src) : src[j].k = "call"}}

\* strings.Contains(expString, pType+"_")
ContainsPType(src, pType) == \E name \in Mentioned(src) : name[1] = pType

\* gjson.Get(jsonStr, jsonPath).String()
GjsonGet(jsonStr, jsonPath) ==
    IF jsonStr = J_ALICE /\ jsonPath = "name" THEN "alice"
    ELSE IF jsonStr = J_DATA1 /\ jsonPath = "name" THEN "data1"
    ELSE ""

\* requestJsonReplace: the leftmost request-object access of str is looked up
\* in the request value of its token and every occurrence of it is replaced
\* by the literal.  rTokens[...] of an unknown token is position 0.
requestJsonReplace(str, rTokens, rvals) ==
    LET at == {i \in 1..Len(str) : str[i].k = "path"}
    IN IF at = {} THEN [panic |-> FALSE, str |-> str]
       ELSE LET m == str[CHOOSE i \in at : \A j \in at : i <= j]
                ti == TokenIndex(rTokens, m.n)
                tokenIndex == IF ti = -1 THEN 0 ELSE ti
            IN IF tokenIndex >= Len(rvals) THEN [panic |-> TRUE, str |-> str]
               ELSE LET newStr == Lit(GjsonGet(rvals[tokenIndex + 1], m.f))
                    IN [panic |-> FALSE,
                        str |-> [i \in 1..Len(str) |-> IF str[i] = m THEN newStr ELSE str[i]]]

\* ----------------------------------------------------------- effector

\* Effector.MergeEffects for the effect expression expr, called after the
\* tuple at policyIndex (from 0) of policyLength tuples.
MergeEffects(expr, effects, matches, policyIndex, policyLength) ==
    CASE expr = E_ALLOW ->
           IF matches[policyIndex + 1] # 0 /\ effects[policyIndex + 1] = Allow
           THEN [effect |-> Allow, explainIndex |-> policyIndex, err |-> Nil]
           ELSE [effect |-> Indeterminate, explainIndex |-> -1, err |-> Nil]
      [] expr = E_DENY ->
           IF matches[policyIndex + 1] # 0 /\ effects[policyIndex + 1] = Deny
           THEN [effect |-> Deny, explainIndex |-> policyIndex, err |-> Nil]
           ELSE IF policyIndex = policyLength - 1
           THEN [effect |-> Allow, explainIndex |-> -1, err |-> Nil]
           ELSE [effect |-> Indeterminate, explainIndex |-> -1, err |-> Nil]
      [] OTHER -> [effect |-> Deny, explainIndex |-> -1, err |-> ErrUnsupportedEffect]

\* ------------------------------------------------------------- models

\* [request_definition] r = sub, obj  [policy_definition] p = sub, obj
\* [role_definition] g = _, _  [policy_effect] e  [matchers] m
ModelRBAC ==
    [r |-> [k \in {"r"} |-> <<Tok("r", "sub"), Tok("r", "obj")>>],
     p |-> [k \in {"p"} |-> [tokens |-> <<Tok("p", "sub"), Tok("p", "obj")>>, policy |-> << >>]],
     g |-> [k \in {"g"} |-> [rm |-> NoRM, policy |-> << >>]],
     e |-> [k \in {"e"} |-> E_ALLOW],
     m |-> [k \in {"m"} |-> M_RBAC]]

\* The model of the multi example: r, r2; p, p2 = sub_rule, obj, eft; g; e; m, m2.
ModelMulti ==
    [r |-> [k \in {"r", "r2"} |->
              IF k = "r" THEN <<Tok("r", "sub"), Tok("r", "obj")>>
              ELSE <<Tok("r2", "sub"), Tok("r2", "obj")>>],
     p |-> [k \in {"p", "p2"} |->
              IF k = "p" THEN [tokens |-> <<Tok("p", "sub"), Tok("p", "obj")>>, policy |-> << >>]
              ELSE [tokens |-> <<Tok("p2", "sub_rule"), Tok("p2", "obj"), Tok("p2", "eft")>>,
                    policy |-> << >>]],
     g |-> [k \in {"g"} |-> [rm |-> NoRM, policy |-> << >>]],
     e |-> [k \in {"e"} |-> E_ALLOW],
     m |-> [k \in {"m", "m2"} |-> IF k = "m" THEN M_RBAC ELSE M_EVAL2]]

\* The models a caller installs.
Models == {ModelRBAC, ModelMulti}

\* model.LoadFunctionMap(): the built-in functions the matchers of the model use.
LoadFunctionMap == [name \in {"regexMatch"} |-> [kind |-> name, rm |-> NoRM]]

\* ------------------------------------------------------------ enforce

\* EnforceContext; use = FALSE is a request without one.
NoContext == [use |-> FALSE, RType |-> "r", PType |-> "p", EType |-> "e", MType |-> "m"]
\* NewEnforceContext(suffix)
NewEnforceContext(suffix) ==
    [use |-> TRUE, RType |-> "r" \o suffix, PType |-> "p" \o suffix,
     EType |-> "e" \o suffix, MType |-> "m" \o suffix]
\* The context of the multi example: NewEnforceContext("2") with EType = "e".
MultiContext == [NewEnforceContext("2") EXCEPT !.EType = "e"]

\* The local variables of enforce before its first statement.
Locals0 ==
    [functions |-> << >>, rType |-> "r", pType |-> "p", eType |-> "e", mType |-> "m",
     expString |-> << >>, rTokens |-> << >>, pTokens |-> << >>, hasEval |-> FALSE,
     expression |-> [fns |-> << >>, old |-> FALSE],
     policyLen |-> 0, slice |-> << >>, policyIndex |-> 0,
     policyEffects |-> << >>, matcherResults |-> << >>,
     effect |-> ZeroEffect, explainIndex |-> 0]

Results0 == [ok |-> FALSE, err |-> Nil, explain |-> << >>]

DecIdle ==
    [pc |-> "idle",
     in |-> [matcher |-> NoMatcher, explains |-> FALSE, ctx |-> NoContext, rvals |-> << >>],
     loc |-> Locals0, out |-> Results0, tr |-> << >>, agg |-> << >>]

\* enforce(matcher, explains, rvals...) entered.
DecStart(matcher, explains, ctx, rvals) ==
    [pc |-> "start",
     in |-> [matcher |-> matcher, explains |-> explains, ctx |-> ctx, rvals |-> rvals],
     loc |-> Locals0, out |-> Results0, tr |-> << >>, agg |-> << >>]

\* A return that hands out true with every error.
ReturnOpen(d, ok, err) ==
    [d EXCEPT !.pc = "done", !.loc = Locals0, !.out.ok = (ok \/ err # Nil), !.out.err = err]

\* return ok, err (the locals are dead).
Return(d, ok, err) ==
    [d EXCEPT !.pc = "done", !.loc = Locals0, !.out.ok = ok, !.out.err = err]

\* A recover() in a function whose result ok was set before the panic.
RecoverOk(d) == Return(d, TRUE, ErrPanic)

\* The deferred recover(): err is set, ok keeps its zero value.
Recover(d) == Return(d, FALSE, ErrPanic)

Goto(d, pc, loc) == [d EXCEPT !.pc = pc, !.loc = loc]

\* A function table in which a function of e.fm keeps its name against
\* the key of a role-definition assertion.
FunctionsShadowed(E) ==
    [name \in DOMAIN E.fm \cup DOMAIN E.model.g |->
        IF name \in DOMAIN E.fm THEN E.fm[name]
        ELSE [kind |-> "g", rm |-> E.model.g[name].rm]]

\* Lines 566-577: functions := e.fm.GetFunctions(), then for every key of
\* e.model["g"], functions[key] = util.GenerateGFunction(ast.RM).
Functions(E) ==
    [name \in DOMAIN E.fm \cup DOMAIN E.model.g |->
        IF name \in DOMAIN E.model.g THEN [kind |-> "g", rm |-> E.model.g[name].rm]
        ELSE E.fm[name]]

\* Lines 561-636: the enabled check, the function table, the context, the
\* matcher source, the token maps, the JSON rewrite and hasEval.
StepStart(d, E) ==
    LET ctx == d.in.ctx
        functions == Functions(E)
    IN IF ~E.enabled THEN Return(d, TRUE, Nil)
       ELSE IF d.in.matcher = NoMatcher /\ ctx.MType \notin DOMAIN E.model.m THEN Recover(d)
       ELSE IF ctx.RType \notin DOMAIN E.model.r THEN Recover(d)
       ELSE IF ctx.PType \notin DOMAIN E.model.p THEN Recover(d)
       ELSE LET exp0 == IF d.in.matcher = NoMatcher THEN E.model.m[ctx.MType] ELSE d.in.matcher
                rTokens == E.model.r[ctx.RType]
                pTokens == E.model.p[ctx.PType].tokens
                rep == IF E.acceptJsonRequest
                       THEN requestJsonReplace(exp0, rTokens, d.in.rvals)
                       ELSE [panic |-> FALSE, str |-> exp0]
                hasEval == HasEval(rep.str)
            IN IF rep.panic THEN Recover(d)
               ELSE Goto(d, "load",
                         [d.loc EXCEPT
                            !.functions =
                                IF hasEval
                                THEN [name \in DOMAIN functions \cup {"eval"} |->
                                        IF name = "eval" THEN [kind |-> "eval", rm |-> NoRM]
                                        ELSE functions[name]]
                                ELSE functions,
                            !.rType = ctx.RType, !.pType = ctx.PType,
                            !.eType = ctx.EType, !.mType = ctx.MType,
                            !.expString = rep.str, !.rTokens = rTokens, !.pTokens = pTokens,
                            !.hasEval = hasEval])

\* getAndStoreMatcherExpression up to the Store: the cache lookup and, on a
\* miss or with eval(), the compilation.  (old: history, set once an
\* operation that resets the cache has returned.)
StepLoad(d, E) ==
    LET l == d.loc
    IN IF ~l.hasEval /\ l.expString \in DOMAIN E.matcherMap
       THEN Goto(d, "check", [l EXCEPT !.expression = E.matcherMap[l.expString]])
       ELSE IF ~Compiles(l.expString, l.functions) THEN Return(d, FALSE, ErrCompile)
       ELSE Goto(d, "store", [l EXCEPT !.expression = [fns |-> l.functions, old |-> FALSE]])

\* e.matcherMap.Store(expString, expression)
StoreMatcher(mm, expString, expression) ==
    [s \in DOMAIN mm \cup {expString} |-> IF s = expString THEN expression ELSE mm[s]]

\* A size test that accepts every request.
RequestSizeIgnored(d, E) == FALSE

\* Line 643: len(e.model["r"][rType].Tokens) != len(rvals)
RequestSizeMismatch(d, E) == Len(E.model.r[d.loc.rType]) # Len(d.in.rvals)

\* Lines 643-662: the request size check and the choice of the branch.
StepCheck(d, E) ==
    LET l == d.loc
    IN IF l.rType \notin DOMAIN E.model.r \/ l.pType \notin DOMAIN E.model.p THEN Recover(d)
       ELSE IF RequestSizeMismatch(d, E) THEN Return(d, FALSE, ErrRequestSize)
       ELSE LET policyLen == Len(E.model.p[l.pType].policy)
            IN IF policyLen # 0 /\ ContainsPType(l.expString, l.pType)
               THEN Goto(d, "range",
                         [l EXCEPT !.policyLen = policyLen,
                                   !.policyEffects = [i \in 1..policyLen |-> ZeroEffect],
                                   !.matcherResults = [i \in 1..policyLen |-> 0]])
               ELSE Goto(d, "single", l)

\* Line 664: range evaluates e.model["p"][pType].Policy once.
StepRange(d, E) ==
    LET l == d.loc
    IN IF l.pType \notin DOMAIN E.model.p THEN Recover(d)
       ELSE LET slice == E.model.p[l.pType].policy
            IN Goto(d, IF slice = << >> THEN "finish" ELSE "iter",
                    [l EXCEPT !.slice = slice, !.policyIndex = 0])

\* Lines 674-683: the policy fields of the tuple, rewritten in a copy when
\* JSON requests are accepted.  No field text of the model holds a
\* request-object access, so the rewrite finds nothing to replace.
PolicyValues(E, pvals, rTokens, rvals) ==
    IF E.acceptJsonRequest
    THEN [i \in 1..Len(pvals) |->
            IF requestJsonReplace(ParseRule(pvals[i]), rTokens, rvals).str = ParseRule(pvals[i])
            THEN pvals[i] ELSE ""]
    ELSE pvals

\* A tuple effect that does not look at the eft field.
TupleEffectAllow(pTokens, pType, pVals) == Allow

\* Lines 707-718: the effect of a tuple.
TupleEffect(pTokens, pType, pVals) ==
    LET j == TokenIndex(pTokens, Tok(pType, "eft"))
    IN IF j = -1 THEN Allow
       ELSE IF pVals[j + 1] = "allow" THEN Allow
       ELSE IF pVals[j + 1] = "deny" THEN Deny
       ELSE Indeterminate

\* History: expression.Eval was called on the tuple at index.
Evaluated(d, index) ==
    [d EXCEPT !.tr = Append(@, [kind |-> "eval", index |-> index, match |-> 0,
                                eft |-> Indeterminate, effect |-> Indeterminate])]

\* History: MergeEffects was called and returned me.effect (agg: the
\* effects the calls of a decision returned, in both branches).
Aggregated(d, me) == [d EXCEPT !.agg = Append(@, me.effect)]

\* History: MergeEffects was called after the tuple at d.loc.policyIndex,
\* with this match and effect of the tuple, and returned me.effect.
Merged(d, matches, effects, me) ==
    [Aggregated(d, me) EXCEPT
        !.tr = Append(@, [kind |-> "merge", index |-> d.loc.policyIndex,
                          match |-> matches[d.loc.policyIndex + 1],
                          eft |-> effects[d.loc.policyIndex + 1],
                          effect |-> me.effect])]

\* A loop that is not left when the merged effect is definitive.
IterNextAll(d, matches, effects, me) ==
    LET l == d.loc
    IN IF me.err # Nil THEN Return(d, FALSE, me.err)
       ELSE Goto(d, IF l.policyIndex + 1 >= Len(l.slice) THEN "finish" ELSE "iter",
                 [l EXCEPT !.matcherResults = matches, !.policyEffects = effects,
                           !.effect = me.effect, !.explainIndex = me.explainIndex,
                           !.policyIndex = IF l.policyIndex + 1 >= Len(l.slice)
                                           THEN l.policyIndex ELSE l.policyIndex + 1])

\* Lines 724-731: the effect merged and the loop left or continued.
IterNext(d, matches, effects, me) ==
    LET l == d.loc
    IN IF me.err # Nil THEN Return(d, FALSE, me.err)
       ELSE Goto(d,
                 IF me.effect # Indeterminate \/ l.policyIndex + 1 >= Len(l.slice)
                 THEN "finish" ELSE "iter",
                 [l EXCEPT !.matcherResults = matches, !.policyEffects = effects,
                           !.effect = me.effect, !.explainIndex = me.explainIndex,
                           !.policyIndex = IF me.effect # Indeterminate
                                           THEN l.policyIndex ELSE l.policyIndex + 1])

\* Line 724: e.eft.MergeEffects(e.model["e"][eType].Value, ...)
IterMerge(d, E, matches, effects) ==
    IF d.loc.eType \notin DOMAIN E.model.e THEN Recover(d)
    ELSE IterNext(Merged(d, matches, effects,
                         MergeEffects(E.model.e[d.loc.eType], effects, matches,
                                      d.loc.policyIndex, d.loc.policyLen)),
                  matches, effects,
                  MergeEffects(E.model.e[d.loc.eType], effects, matches,
                               d.loc.policyIndex, d.loc.policyLen))

\* Lines 687-718: the result of the matcher on one tuple.
IterResult(d, E, pVals, result) ==
    LET l == d.loc
    IN IF result.t = "panic" THEN Recover(d)
       ELSE IF result.t = "err" THEN Return(d, FALSE, ErrEval)
       \* matcherResults[policyIndex] = 0: the index is checked against policyLen
       ELSE IF l.policyIndex >= l.policyLen THEN Recover(d)
       ELSE IF result.t \notin {"bool", "num"} THEN Return(d, FALSE, ErrResultType)
       ELSE IterMerge(d, E,
                      [l.matcherResults EXCEPT
                         ![l.policyIndex + 1] = IF result.v \in {"false", "0"} THEN 0 ELSE 1],
                      [l.policyEffects EXCEPT
                         ![l.policyIndex + 1] = TupleEffect(l.pTokens, l.pType, pVals)])

\* Line 685: expression.Eval(parameters)
IterEval(d, E, R, pVals) ==
    IterResult(d, E, pVals,
               Evaluate(R, d.loc.expString, d.loc.expression.fns,
                        [rTokens |-> d.loc.rTokens, rVals |-> d.in.rvals,
                         pTokens |-> d.loc.pTokens, pVals |-> pVals]))

\* Lines 664-731: one iteration of the tuple loop.
StepIter(d, E, R) ==
    LET l == d.loc
        pvals == l.slice[l.policyIndex + 1]
    IN IF l.pType \notin DOMAIN E.model.p THEN Recover(d)
       ELSE IF Len(E.model.p[l.pType].tokens) # Len(pvals) THEN Return(d, FALSE, ErrPolicySize)
       ELSE IterEval(Evaluated(d, l.policyIndex), E, R,
                     PolicyValues(E, pvals, l.rTokens, d.in.rvals))

\* A test for eval() on an empty table that never fires.
EvalWithoutPolicyIgnored(d, E) == FALSE

\* Line 735: hasEval && len(e.model["p"][pType].Policy) == 0
EvalWithoutPolicy(d, E) == d.loc.hasEval /\ Len(E.model.p[d.loc.pType].policy) = 0

\* Lines 756-759: the effect merged.
SingleNext(d, me) ==
    IF me.err # Nil THEN Return(Aggregated(d, me), FALSE, me.err)
    ELSE Goto(Aggregated(d, me), "finish",
              [d.loc EXCEPT !.effect = me.effect, !.explainIndex = me.explainIndex])

\* A single evaluation whose effect is Allow whatever the matcher returns.
SingleResultAllow(d, E, result) ==
    IF d.loc.eType \notin DOMAIN E.model.e THEN Recover(d)
    ELSE SingleNext(d, MergeEffects(E.model.e[d.loc.eType], << Allow >>, << 1 >>, 0, 1))

\* Lines 746-756: the result of the matcher; result.(bool).
SingleResult(d, E, result) ==
    IF result.t = "panic" THEN Recover(d)
    ELSE IF result.t = "err" THEN Return(d, FALSE, ErrEval)
    ELSE IF result.t # "bool" THEN Recover(d)
    ELSE IF d.loc.eType \notin DOMAIN E.model.e THEN Recover(d)
    ELSE SingleNext(d, MergeEffects(E.model.e[d.loc.eType],
                                    << IF result.v = "true" THEN Allow ELSE Indeterminate >>,
                                    << 1 >>, 0, 1))

\* Lines 733-760: the single evaluation with empty tuple values.
StepSingle(d, E, R) ==
    LET l == d.loc
    IN IF l.pType \notin DOMAIN E.model.p THEN Recover(d)
       ELSE IF EvalWithoutPolicy(d, E) THEN Return(d, FALSE, ErrEvalNoPolicy)
       ELSE SingleResult(d, E,
                Evaluate(R, l.expString, l.expression.fns,
                         [rTokens |-> l.rTokens, rVals |-> d.in.rvals,
                          pTokens |-> l.pTokens,
                          pVals |-> [i \in 1..Cardinality({l.pTokens[j] : j \in 1..Len(l.pTokens)})
                                       |-> ""]]))

\* A result that is true unless the effect is Deny.
StepFinishLenient(d, E) == Return(d, d.loc.effect # Deny, Nil)

\* Lines 762-782: the explanation and the result.
StepFinish(d, E) ==
    LET l == d.loc
        result == (l.effect = Allow)
    IN IF ~d.in.explains THEN Return(d, result, Nil)
       ELSE IF l.pType \notin DOMAIN E.model.p THEN Recover(d)
       ELSE IF l.explainIndex # -1 /\ Len(E.model.p[l.pType].policy) > l.explainIndex
       THEN Return([d EXCEPT !.out.explain = E.model.p[l.pType].policy[l.explainIndex + 1]],
                   result, Nil)
       ELSE Return(d, result, Nil)

\* One step of a decision at d.pc against the Enforcer E and the heap R: the
\* decision after the step and the matcher cache after it.
EnforceStep(d, E, R) ==
    CASE d.pc = "start" -> [d |-> StepStart(d, E), mm |-> E.matcherMap]
      [] d.pc = "load" -> [d |-> StepLoad(d, E), mm |-> E.matcherMap]
      [] d.pc = "store" ->
           [d |-> Goto(d, "check", d.loc),
            mm |-> StoreMatcher(E.matcherMap, d.loc.expString, d.loc.expression)]
      [] d.pc = "check" -> [d |-> StepCheck(d, E), mm |-> E.matcherMap]
      [] d.pc = "range" -> [d |-> StepRange(d, E), mm |-> E.matcherMap]
      [] d.pc = "iter" -> [d |-> StepIter(d, E, R), mm |-> E.matcherMap]
      [] d.pc = "single" -> [d |-> StepSingle(d, E, R), mm |-> E.matcherMap]
      [] d.pc = "finish" -> [d |-> StepFinish(d, E), mm |-> E.matcherMap]

RECURSIVE RunEnforce(_, _, _)

\* The run continued after the step s.
RunOn(s, E, R) == RunEnforce(s.d, [E EXCEPT !.matcherMap = s.mm], R)

\* enforce run to its return with no other goroutine touching E or R.
RunEnforce(d, E, R) ==
    IF d.pc = "done" THEN [d |-> d, mm |-> E.matcherMap]
    ELSE RunOn(EnforceStep(d, E, R), E, R)

\* ------------------------------------------------------- policy store

\* The sections an adapter holds rows for.
PolicyKeys == {"p", "p2"}
RoleKeys == {"g"}

\* The arity of "g = _, _".
RoleArity == 2

\* model.ClearPolicy(): every p and g table emptied.
ClearPolicy(model) ==
    [model EXCEPT
       !.p = [k \in DOMAIN model.p |-> [model.p[k] EXCEPT !.policy = << >>]],
       !.g = [k \in DOMAIN model.g |-> [model.g[k] EXCEPT !.policy = << >>]]]

\* A stored row fits the model: its section exists and its arity is the
\* section's token count.
RowsFit(model, content) ==
    /\ \A k \in PolicyKeys :
          content[k] # << >> =>
             /\ k \in DOMAIN model.p
             /\ \A i \in 1..Len(content[k]) : Len(content[k][i]) = Len(model.p[k].tokens)
    /\ \A k \in RoleKeys :
          content[k] # << >> =>
             /\ k \in DOMAIN model.g
             /\ \A i \in 1..Len(content[k]) : Len(content[k][i]) = RoleArity

\* adapter.LoadPolicy(model): the stored rows appended to the tables.
AdapterLoad(model, content) ==
    [model EXCEPT
       !.p = [k \in DOMAIN model.p |->
                [model.p[k] EXCEPT !.policy = @ \o (IF k \in PolicyKeys THEN content[k] ELSE << >>)]],
       !.g = [k \in DOMAIN model.g |->
                [model.g[k] EXCEPT !.policy = @ \o (IF k \in RoleKeys THEN content[k] ELSE << >>)]]]

RECURSIVE InsertBy(_, _)
\* x put into the sorted seq after every element whose key is not greater.
InsertBy(seq, x) ==
    IF seq = << >> THEN << x >>
    ELSE IF Head(seq).key <= x.key THEN << Head(seq) >> \o InsertBy(Tail(seq), x)
    ELSE << x >> \o seq

RECURSIVE StableSort(_)
\* seq sorted by ascending key, equal keys in their order of seq.
StableSort(seq) ==
    IF seq = << >> THEN << >>
    ELSE InsertBy(StableSort(SubSeq(seq, 1, Len(seq) - 1)), seq[Len(seq)])

\* The rules of keyed, in its order.
Rules(keyed) == [i \in 1..Len(keyed) |-> keyed[i].rule]

\* The names that reach name over the g rules: those it is an ancestor of.
Descendants(model, name) ==
    LET links == UNION {LinksOf(model.g[k].policy) : k \in DOMAIN model.g}
        names == {l[1] : l \in links}
    IN {x \in names : x # name /\ HasLink(links, x, name)}

\* model.SortPoliciesBySubjectHierarchy(): tuples whose subject is an
\* ancestor sort later.
SortPoliciesBySubjectHierarchy(model) ==
    [model EXCEPT
       !.p = [k \in DOMAIN model.p |->
                LET at == TokenIndex(model.p[k].tokens, Tok(k, "sub"))
                    policy == model.p[k].policy
                IN IF at = -1 THEN model.p[k]
                   ELSE [model.p[k] EXCEPT !.policy =
                           Rules(StableSort([i \in 1..Len(policy) |->
                               [key |-> Cardinality(Descendants(model, policy[i][at + 1])),
                                rule |-> policy[i]]]))]]]

\* The number a priority field reads as.
PriorityValue(text) == IF text = "1" THEN 1 ELSE IF text = "2" THEN 2 ELSE 0

\* model.SortPoliciesByPriority(): by ascending p_priority where declared.
SortPoliciesByPriority(model) ==
    [model EXCEPT
       !.p = [k \in DOMAIN model.p |->
                LET at == TokenIndex(model.p[k].tokens, Tok(k, "priority"))
                    policy == model.p[k].policy
                IN IF at = -1 THEN model.p[k]
                   ELSE [model.p[k] EXCEPT !.policy =
                           Rules(StableSort([i \in 1..Len(policy) |->
                               [key |-> PriorityValue(policy[i][at + 1]), rule |-> policy[i]]]))]]]

\* ------------------------------------------------------ role links

\* The order in which a range over e.rmMap visits its keys, given the
\* order the runtime picked over all keys.
VisitOrder(order, rmMap) == SelectSeq(order, LAMBDA k : k \in DOMAIN rmMap)

RECURSIVE ClearRoleManagers(_, _, _, _)
\* for _, rm := range e.rmMap { err := rm.Clear(); if err != nil { return err } }
\* The Clear of a caller-supplied role manager fails when failClear.
ClearRoleManagers(R, rmMap, todo, failClear) ==
    IF todo = << >> THEN [R |-> R, err |-> Nil]
    ELSE LET rm == rmMap[Head(todo)]
         IN IF R[rm].custom /\ failClear THEN [R |-> R, err |-> ErrClear]
            ELSE ClearRoleManagers([R EXCEPT ![rm].links = {}], rmMap, Tail(todo), failClear)

\* model.BuildRoleLinks(rmMap): every g assertion takes the role manager of
\* its key and adds one link per rule; AddLink of a caller-supplied role
\* manager fails when failAdd.
ModelBuildRoleLinks(model, rmMap, R, failAdd) ==
    LET failing == {k \in DOMAIN model.g :
                       failAdd /\ R[rmMap[k]].custom /\ model.g[k].policy # << >>}
    IN [model |-> [model EXCEPT !.g = [k \in DOMAIN model.g |-> [model.g[k] EXCEPT !.rm = rmMap[k]]]],
        R |-> [id \in DOMAIN R |->
                 [R[id] EXCEPT !.links =
                    @ \cup UNION {LinksOf(model.g[k].policy) :
                                    k \in {x \in DOMAIN model.g \ failing : rmMap[x] = id}}]],
        err |-> IF failing = {} THEN Nil ELSE ErrBuild]

\* Enforcer.BuildRoleLinks
BuildRoleLinks(E, R, order, failClear, failAdd) ==
    LET c == ClearRoleManagers(R, E.rmMap, VisitOrder(order, E.rmMap), failClear)
        b == ModelBuildRoleLinks(E.model, E.rmMap, c.R, failAdd)
    IN IF c.err # Nil THEN [E |-> E, R |-> c.R, err |-> c.err]
       ELSE [E |-> [E EXCEPT !.model = b.model], R |-> b.R, err |-> b.err]

\* Enforcer.invalidateMatcherMap
invalidateMatcherMap(E) == [E EXCEPT !.matcherMap = << >>]

\* --------------------------------------------------------- LoadPolicy

LoadLocals0 == [newModel |-> << >>, needToRebuild |-> FALSE, todo |-> << >>]

\* What the collaborators of one LoadPolicy call do: the adapter's error,
\* the error of a sort pass, the order of the range over e.rmMap, and
\* whether Clear / AddLink of a caller-supplied role manager fail (AddLink
\* in line 383, failAdd, and in the deferred rebuild, failRebuild).
Oracle0 ==
    [adapterErr |-> Nil, sortErr |-> Nil, order |-> <<"g", "g2">>,
     failClear |-> FALSE, failAdd |-> FALSE, failRebuild |-> FALSE]

\* One fault per call, and the faults that can follow a failed AddLink.
Faults ==
    {Oracle0,
     [Oracle0 EXCEPT !.adapterErr = ErrEmptyPath],
     [Oracle0 EXCEPT !.adapterErr = ErrAdapter],
     [Oracle0 EXCEPT !.sortErr = "hierarchy"],
     [Oracle0 EXCEPT !.sortErr = "priority"],
     [Oracle0 EXCEPT !.failClear = TRUE],
     [Oracle0 EXCEPT !.failAdd = TRUE],
     [Oracle0 EXCEPT !.failAdd = TRUE, !.failRebuild = TRUE]}

Orders == {<<"g", "g2">>, <<"g2", "g">>}

\* The order of the range matters to the role manager whose Clear fails.
LoadOracles == Faults \cup {[Oracle0 EXCEPT !.failClear = TRUE, !.order = <<"g2", "g">>]}

LoadIdle == [pc |-> "idle", in |-> Oracle0, loc |-> LoadLocals0, err |-> Nil, content |-> << >>]

LoadStart(oracle) ==
    [pc |-> "start", in |-> oracle, loc |-> LoadLocals0, err |-> Nil, content |-> << >>]

\* return err
LoadReturn(l, err) == [l EXCEPT !.pc = "done", !.in = Oracle0, !.loc = LoadLocals0, !.err = err]

\* Lines 347-351: the cache reset and the empty copy of the model.
LoadStepStart(l, E, R) ==
    [l |-> [l EXCEPT !.pc = "adapter", !.loc.newModel = ClearPolicy(E.model)],
     E |-> invalidateMatcherMap(E), R |-> R]

\* Lines 363-376: the adapter, the two sort passes, the autoBuildRoleLinks test.
LoadStepAdapter(l, E, R, content) ==
    LET o == l.in
        loaded == IF o.adapterErr = ErrEmptyPath THEN l.loc.newModel
                  ELSE AdapterLoad(l.loc.newModel, content)
        sorted == SortPoliciesByPriority(SortPoliciesBySubjectHierarchy(loaded))
        todo == VisitOrder(o.order, E.rmMap)
    IN IF o.adapterErr = ErrAdapter \/ (o.adapterErr = Nil /\ ~RowsFit(l.loc.newModel, content))
       THEN [l |-> LoadReturn(l, ErrAdapter), E |-> E, R |-> R]
       ELSE IF o.sortErr # Nil THEN [l |-> LoadReturn(l, ErrSort), E |-> E, R |-> R]
       ELSE IF E.autoBuildRoleLinks
       THEN [l |-> [l EXCEPT !.pc = IF todo = << >> THEN "build" ELSE "clear",
                             !.loc = [newModel |-> sorted, needToRebuild |-> TRUE, todo |-> todo]],
             E |-> E, R |-> R]
       ELSE [l |-> [l EXCEPT !.pc = "install", !.loc.newModel = sorted], E |-> E, R |-> R]

\* Lines 377-382: rm.Clear() of the next role manager of the range.  Its err
\* is a variable of the loop body: the deferred function sees the outer err,
\* which is nil, and rebuilds nothing.
LoadStepClear(l, E, R) ==
    LET c == ClearRoleManagers(R, E.rmMap, << Head(l.loc.todo) >>, l.in.failClear)
    IN IF c.err # Nil THEN [l |-> LoadReturn(l, c.err), E |-> E, R |-> R]
       ELSE [l |-> [l EXCEPT !.pc = IF Tail(l.loc.todo) = << >> THEN "build" ELSE "clear",
                             !.loc.todo = Tail(@)],
             E |-> E, R |-> c.R]

\* Lines 383-386: newModel.BuildRoleLinks(e.rmMap).
LoadStepBuild(l, E, R) ==
    LET b == ModelBuildRoleLinks(l.loc.newModel, E.rmMap, R, l.in.failAdd)
    IN [l |-> [l EXCEPT !.pc = IF b.err # Nil THEN "deferred" ELSE "install",
                        !.loc.newModel = b.model, !.err = b.err],
        E |-> E, R |-> b.R]

\* Lines 354-360: the deferred function after err was set by line 383.
LoadStepDeferred(l, E, R) ==
    IF E.autoBuildRoleLinks /\ l.loc.needToRebuild
    THEN LET b == BuildRoleLinks(E, R, l.in.order, l.in.failClear, l.in.failRebuild)
         IN [l |-> LoadReturn(l, l.err), E |-> b.E, R |-> b.R]
    ELSE [l |-> LoadReturn(l, l.err), E |-> E, R |-> R]

\* A LoadPolicy that returns nil and leaves e.model as it was.
LoadStepNoInstall(l, E, R) == [l |-> LoadReturn(l, Nil), E |-> E, R |-> R]

\* Line 388: e.model = newModel.
LoadStepInstall(l, E, R) ==
    [l |-> LoadReturn(l, Nil), E |-> [E EXCEPT !.model = l.loc.newModel], R |-> R]

\* One step of LoadPolicy at l.pc; content is what the adapter's store holds.
LoadStep(l, E, R, content) ==
    CASE l.pc = "start" -> LoadStepStart(l, E, R)
      [] l.pc = "adapter" -> LoadStepAdapter(l, E, R, content)
      [] l.pc = "clear" -> LoadStepClear(l, E, R)
      [] l.pc = "build" -> LoadStepBuild(l, E, R)
      [] l.pc = "deferred" -> LoadStepDeferred(l, E, R)
      [] l.pc = "install" -> LoadStepInstall(l, E, R)

RECURSIVE RunLoad(_, _, _, _)
\* LoadPolicy run to its return with no other goroutine touching E or R.
RunLoad(l, E, R, content) ==
    IF l.pc = "done" THEN [l |-> l, E |-> E, R |-> R]
    ELSE LET s == LoadStep(l, E, R, content)
         IN RunLoad(s.l, s.E, s.R, content)

\* ------------------------------------------------------------- state

VARIABLES
    e,     \* the Enforcer: model, adapter, watcher, rmMap, matcherMap and the toggles
    rms,   \* the role-manager objects: id -> [links, custom]
    dec,   \* the enforce call: its position, arguments, locals and results
    ld,    \* the LoadPolicy call: its position, locals and result
    gh,    \* history: what the caller asked of EnableEnforce, the reload beside a decision
    io,    \* the adapter's store and the watcher, and the operation that returned last
    other  \* the enforce call of a second goroutine, beside the one of dec

vars == <<e, rms, dec, ld, gh, io, other>>

RMIds == 1..MaxRM
FreeRM == [links |-> {}, custom |-> FALSE]

FnRefs(fns) == {fns[n].rm : n \in DOMAIN fns}
ModelRefs(model) == {model.g[k].rm : k \in DOMAIN model.g}

\* The role managers some reference of the program reaches.
Refs(E, d, l) ==
    ( {E.rmMap[k] : k \in DOMAIN E.rmMap} \cup ModelRefs(E.model)
      \cup UNION {FnRefs(E.matcherMap[x].fns) : x \in DOMAIN E.matcherMap}
      \cup FnRefs(d.loc.functions) \cup FnRefs(d.loc.expression.fns)
      \cup (IF l.loc.newModel = << >> THEN {} ELSE ModelRefs(l.loc.newModel)) ) \ {NoRM}

\* Unreachable role managers are garbage.
Collect(R, refs) == [id \in RMIds |-> IF id \in refs THEN R[id] ELSE FreeRM]

\* The object a "new role manager" expression yields.
NewRM(refs) == CHOOSE id \in RMIds \ refs : \A j \in RMIds \ refs : id <= j

\* initRmMap: the role manager of a g key that has one is cleared (the error
\* of a Clear is dropped: a caller-supplied one that fails when failClear
\* keeps its links), a g key without one gets a default role manager.
\* (One g key per model: the new objects are taken in turn.)
initRmMap(E, R, refs, failClear) ==
    LET keys == DOMAIN E.model.g
        fresh == keys \ DOMAIN E.rmMap
        cleared == {E.rmMap[k] : k \in keys \cap DOMAIN E.rmMap}
    IN [E |-> [E EXCEPT !.rmMap = [k \in DOMAIN E.rmMap \cup keys |->
                                     IF k \in DOMAIN E.rmMap THEN E.rmMap[k] ELSE NewRM(refs)]],
        R |-> [id \in RMIds |->
                 IF id \in cleared
                 THEN IF R[id].custom /\ failClear THEN R[id] ELSE [R[id] EXCEPT !.links = {}]
                 ELSE IF fresh # {} /\ id = NewRM(refs) THEN FreeRM
                 ELSE R[id]]]

\* Enforcer.initialize
initialize(E, R, refs) ==
    initRmMap([E EXCEPT !.rmMap = << >>, !.watcher = FALSE, !.matcherMap = << >>,
                        !.enabled = TRUE, !.autoSave = TRUE, !.autoBuildRoleLinks = TRUE,
                        !.autoNotifyWatcher = TRUE, !.autoNotifyDispatcher = TRUE],
              R, refs, FALSE)

\* The stores an adapter may hold.
C_EMPTY == [k \in PolicyKeys \cup RoleKeys |-> << >>]
C_RBAC == [C_EMPTY EXCEPT !["p"] = << <<"admin", "data1">> >>, !["g"] = << <<"alice", "admin">> >>]
C_HIER ==
    [C_EMPTY EXCEPT !["p"] = << <<"admin", "data1">>, <<"alice", "data1">> >>,
                    !["g"] = << <<"alice", "admin">> >>]
C_REGEX == [C_EMPTY EXCEPT !["p"] = << <<"alice", BadRegex>> >>]
C_RULE == [C_EMPTY EXCEPT !["p2"] = << <<RULE_ALICE, "data1", "allow">> >>]
Contents == {C_EMPTY, C_RBAC, C_RULE}

\* The arguments of the enforce calls.
Good == <<"alice", "data1">>
Short == <<"alice">>
MissingContexts ==
    {[NoContext EXCEPT !.use = TRUE, !.RType = "r3"],
     [NoContext EXCEPT !.use = TRUE, !.PType = "p3"],
     [NoContext EXCEPT !.use = TRUE, !.EType = "e3"],
     [NoContext EXCEPT !.use = TRUE, !.MType = "m3"]}
EnforceCall(matcher, explains, ctx, rvals) ==
    [matcher |-> matcher, explains |-> explains, ctx |-> ctx, rvals |-> rvals]
\* The enforce calls: the model's matcher and matchers of the caller with
\* requests of the right and of a wrong size, JSON requests, the context
\* of the multi example, contexts naming an assertion no model declares.
Calls ==
    {EnforceCall(NoMatcher, FALSE, c, r) : c \in {NoContext, MultiContext}, r \in {Good, Short}}
      \cup {EnforceCall(M_TRUE, FALSE, NoContext, r) : r \in {Good, Short}}
      \cup {EnforceCall(M_JSON, FALSE, NoContext, r) : r \in {<<J_ALICE>>, << >>}}
      \cup {EnforceCall(M_BAD, FALSE, NoContext, Short)}
      \cup {EnforceCall(m, FALSE, c, Good) : m \in {NoMatcher, M_TRUE}, c \in MissingContexts}

\* A model with no assertion: the nil map of an Enforcer that was given none.
NoModel == [r |-> << >>, p |-> << >>, g |-> << >>, e |-> << >>, m |-> << >>]

\* The adapters: none, one that loads all rows, one that also loads filtered.
NoAdapter == "nil"
PlainAdapter == "plain"
FilteredAdapter == "filtered"

\* &Enforcer{}: every field has its zero value.
Enforcer0 ==
    [model |-> NoModel, fm |-> << >>, adapter |-> NoAdapter, watcher |-> FALSE,
     rmMap |-> << >>, matcherMap |-> << >>,
     enabled |-> FALSE, autoSave |-> FALSE, autoBuildRoleLinks |-> FALSE,
     autoNotifyWatcher |-> FALSE, autoNotifyDispatcher |-> FALSE,
     acceptJsonRequest |-> FALSE]

Heap0 == [id \in RMIds |-> FreeRM]

\* No LoadPolicy call has run beside a decision yet.
NoSnapshot == [E |-> Enforcer0, R |-> Heap0]

\* userDisabled: the caller's last EnableEnforce was EnableEnforce(false).
\* Of the goroutines of SpecConc: changed: a LoadPolicy call found other
\* rows in the store than NewEnforcer did; overlap: the enforce call of dec
\* ran beside a LoadPolicy call; pre and post: the Enforcer before that
\* LoadPolicy call and the one it leaves when nothing runs beside it.
Ghost0 ==
    [userDisabled |-> FALSE, changed |-> FALSE,
     overlap |-> FALSE, pre |-> NoSnapshot, post |-> NoSnapshot]

\* The store is not filtered, no operation has returned.
IO0 ==
    [op |-> "none", err |-> Nil, isFiltered |-> FALSE,
     save |-> "none", notified |-> FALSE, requests |-> << >>, results |-> << >>]

\* The operation op returned err and results.  isFiltered: what the
\* adapter's IsFiltered reports after it; save: "none" when it did not call
\* the adapter's SavePolicy, else "ok" or "failed"; notified: it called
\* the watcher's Update.
Did(op, err, isFiltered, save, notified, results) ==
    [op |-> op, err |-> err, isFiltered |-> isFiltered,
     save |-> save, notified |-> notified, requests |-> << >>, results |-> results]

\* An operation that leaves the store and the watcher alone returned.
Quiet(x) == Did("none", Nil, x.isFiltered, "none", FALSE, << >>)

\* An adapter object: its kind, the rows of its store, what its IsFiltered
\* reports and the error of its LoadPolicy.
Adapter(kind, content, filtered, err) ==
    [kind |-> kind, content |-> content, filtered |-> filtered, err |-> err]

\* No adapter: the nil interface.
NilAdapter == Adapter(NoAdapter, C_EMPTY, FALSE, Nil)

\* fileadapter.NewAdapter(path) of a file that holds the rows of content.
NewAdapter(content) == Adapter(PlainAdapter, content, FALSE, Nil)

\* InitWithModelAndAdapter(m, adapter): the model, initialize, and LoadPolicy
\* when there is an adapter whose store is not filtered.
InitWithModelAndAdapter(m, a) ==
    LET i == initialize([Enforcer0 EXCEPT !.adapter = a.kind, !.model = m,
                                          !.fm = LoadFunctionMap],
                        Heap0, {})
    IN IF a.kind # NoAdapter /\ (a.kind # FilteredAdapter \/ ~a.filtered)
       THEN RunLoad(LoadStart([Oracle0 EXCEPT !.adapterErr = a.err]), i.E, i.R, a.content)
       ELSE [l |-> LoadIdle, E |-> i.E, R |-> i.R]

\* NewEnforcer(m, adapter) returned the Enforcer n.
Constructed(n, content) ==
    /\ n.l.err = Nil
    /\ e = n.E
    /\ rms = n.R
    /\ dec = DecIdle
    /\ ld = [n.l EXCEPT !.content = content]
    /\ gh = Ghost0
    /\ io = [IO0 EXCEPT !.op = "NewEnforcer"]
    /\ other = DecIdle

\* NewEnforcer(m, adapter) returned without error.
Init == \E m \in Models : Constructed(InitWithModelAndAdapter(m, NewAdapter(C_RBAC)), C_RBAC)

\* ------------------------------------------- operations, one caller
\* dec describes the enforce call and ld the LoadPolicy call that returned
\* last, until the caller calls another operation.

\* The caller has the results r.d of a run; r.mm is the cache it left.
EnforceReturns(r) ==
    /\ dec' = r.d
    /\ e' = [e EXCEPT !.matcherMap = r.mm]
    /\ rms' = Collect(rms, Refs(e', r.d, LoadIdle))
    /\ ld' = LoadIdle
    /\ io' = Quiet(io)
    /\ other' = DecIdle
    /\ UNCHANGED gh

\* Enforce, EnforceWithMatcher, EnforceEx, EnforceExWithMatcher
Enforce(matcher, explains, ctx, rvals) ==
    EnforceReturns(RunEnforce(DecStart(matcher, explains, ctx, rvals), e, rms))

\* The rows the adapter hands to the model.
Delivered(oracle, content) == IF oracle.adapterErr = ErrEmptyPath THEN C_EMPTY ELSE content

\* The caller has the error of a LoadPolicy run r.
LoadReturns(r, oracle, content) ==
    /\ ld' = [r.l EXCEPT !.content = Delivered(oracle, content)]
    /\ e' = r.E
    /\ rms' = Collect(r.R, Refs(r.E, DecIdle, r.l))
    /\ dec' = DecIdle
    /\ io' = Quiet(io)
    /\ other' = DecIdle
    /\ UNCHANGED gh

\* LoadPolicy (of an Enforcer with an adapter: e.adapter.LoadPolicy on a nil
\* adapter ends the program).
LoadPolicy(oracle, content) ==
    /\ e.adapter # NoAdapter
    /\ LoadReturns(RunLoad(LoadStart(oracle), e, rms, content), oracle, content)

\* The other operations return to a caller with no call in progress.
Returned(E2, R2) ==
    /\ e' = E2
    /\ rms' = Collect(R2, Refs(E2, DecIdle, LoadIdle))
    /\ dec' = DecIdle
    /\ ld' = LoadIdle
    /\ io' = Quiet(io)
    /\ other' = DecIdle

\* ClearPolicy (no dispatcher is installed)
ClearPolicyOp ==
    /\ Returned([invalidateMatcherMap(e) EXCEPT !.model = ClearPolicy(e.model)], rms)
    /\ UNCHANGED gh

\* The Enforcer after SetModel(m).
ModelSet(i) ==
    /\ Returned(i.E, i.R)
    /\ UNCHANGED gh

\* SetModel(m): a model as parsed, with empty tables.
SetModel(m) == ModelSet(initialize([e EXCEPT !.model = m, !.fm = LoadFunctionMap], rms, {}))

\* The Enforcer after the role manager of ptype was set to the new object id.
RoleManagerSet(ptype, id) ==
    /\ Returned([invalidateMatcherMap(e) EXCEPT
                    !.rmMap = [k \in DOMAIN e.rmMap \cup {ptype} |->
                                 IF k = ptype THEN id ELSE e.rmMap[k]]],
                [rms EXCEPT ![id] = [links |-> {}, custom |-> TRUE]])
    /\ UNCHANGED gh

\* SetRoleManager(rm) and SetNamedRoleManager(ptype, rm) with a role manager
\* of the caller's making, which holds no links yet.
SetNamedRoleManager(ptype) ==
    /\ RMIds \ Refs(e, DecIdle, LoadIdle) # {}
    /\ RoleManagerSet(ptype, NewRM(Refs(e, DecIdle, LoadIdle)))

\* The Enforcer after BuildRoleLinks returned.
RoleLinksBuilt(b) ==
    /\ Returned(b.E, b.R)
    /\ UNCHANGED gh

BuildRoleLinksOp(order, failClear, failAdd) ==
    RoleLinksBuilt(BuildRoleLinks(e, rms, order, failClear, failAdd))

EnableEnforce(enable) ==
    /\ Returned([e EXCEPT !.enabled = enable], rms)
    /\ gh' = [gh EXCEPT !.userDisabled = ~enable]

EnableAutoBuildRoleLinks(autoBuildRoleLinks) ==
    /\ Returned([e EXCEPT !.autoBuildRoleLinks = autoBuildRoleLinks], rms)
    /\ UNCHANGED gh

EnableAcceptJsonRequest(acceptJsonRequest) ==
    /\ Returned([e EXCEPT !.acceptJsonRequest = acceptJsonRequest], rms)
    /\ UNCHANGED gh

\* One caller deciding requests, reloading and replacing the model.
Next ==
    \/ \E c \in Calls : Enforce(c.matcher, c.explains, c.ctx, c.rvals)
    \/ \E content \in Contents : LoadPolicy(Oracle0, content)
    \/ ClearPolicyOp
    \/ \E m \in Models : SetModel(m)
    \/ \E b \in BOOLEAN : EnableEnforce(b)
    \/ \E b \in BOOLEAN : EnableAcceptJsonRequest(b)

Spec == Init /\ [][Next]_vars

\* ------------------------------------------------ properties of Spec

\* The enforce call of dec has returned (no operation followed it).
Decided == dec.pc = "done"

\* The request assertion the call selects exists and the call passes another
\* number of values than it has tokens.
ArityMismatch ==
    /\ dec.in.ctx.RType \in DOMAIN e.model.r
    /\ Len(dec.in.rvals) # Len(e.model.r[dec.in.ctx.RType])

Failed == dec.out.err # Nil /\ ~dec.out.ok

\* C4 (as stated): once the caller has disabled enforcement and not enabled
\* it again, every enforce call returns (true, nil), whatever operations
\* came in between.
C4_DisabledReturnsTrue ==
    (Decided /\ gh.userDisabled) => (dec.out.ok /\ dec.out.err = Nil)

\* C7: an enabled Enforcer answers a request whose number of values differs
\* from the number of tokens of the selected request assertion with an error
\* and no positive decision, whatever the policy, the matcher and
\* acceptJsonRequest.
C7_ArityMismatchFails ==
    (Decided /\ e.enabled /\ ArityMismatch) => Failed

\* C7, its case: a short request with a matcher that asks nothing of it,
\* refused by the size check while JSON requests are accepted.
C7_Witness ==
    /\ Decided /\ e.enabled /\ e.acceptJsonRequest /\ ArityMismatch
    /\ dec.in.matcher = M_TRUE
    /\ dec.out.err = ErrRequestSize

\* The kinds of assertion the call names that the model does not declare.
MissingKinds ==
    {k \in {"r", "p", "e", "m"} :
        CASE k = "r" -> dec.in.ctx.RType \notin DOMAIN e.model.r
          [] k = "p" -> dec.in.ctx.PType \notin DOMAIN e.model.p
          [] k = "e" -> dec.in.ctx.EType \notin DOMAIN e.model.e
          [] k = "m" -> dec.in.ctx.MType \notin DOMAIN e.model.m}

\* C8 (as stated): an enabled Enforcer fails the call with an error and no
\* decision when the request, policy, effect or matcher assertion it names
\* is missing from the model.
C8_MissingAssertionFails ==
    (Decided /\ e.enabled /\ MissingKinds # {}) => Failed

\* The matcher of the call has eval() and the policy table it selects is empty.
EvalOnEmptyTable ==
    /\ dec.in.ctx.PType \in DOMAIN e.model.p
    /\ Len(e.model.p[dec.in.ctx.PType].policy) = 0
    /\ IF dec.in.matcher # NoMatcher THEN HasEval(dec.in.matcher)
       ELSE /\ dec.in.ctx.MType \in DOMAIN e.model.m
            /\ HasEval(e.model.m[dec.in.ctx.MType])

\* C10 (as stated): a call whose matcher has eval() and whose policy table
\* is empty fails with an error.
C10_EvalOnEmptyFails ==
    (Decided /\ EvalOnEmptyTable) => Failed

\* C10 (amended): for an enabled Enforcer, a call whose matcher has eval()
\* and whose policy table is empty fails with an error: the error of line
\* 736 when the request has the size of its assertion.
C10_EnabledEvalOnEmptyFails ==
    (Decided /\ e.enabled /\ EvalOnEmptyTable) =>
        /\ Failed
        /\ (MissingKinds = {} /\ ~ArityMismatch) => dec.out.err = ErrEvalNoPolicy

\* C10, its case: the context of the multi example with no p2 rule loaded.
C10_Witness ==
    /\ Decided /\ e.enabled /\ EvalOnEmptyTable
    /\ dec.in.ctx = MultiContext
    /\ dec.out.err = ErrEvalNoPolicy /\ ~dec.out.ok


\* ------------------------------------------- decisions that panic

\* The stores of this specification: a policy field that is no regular
\* expression makes the function regexMatch of the caller panic.
PanicContents == {C_RBAC, C_REGEX}

\* Calls that panic in a function (with C_REGEX), on the type of the
\* result, on a request value that is not there, on a missing assertion;
\* a call with a matcher that does not parse; calls that decide.
PanicCalls ==
    {EnforceCall(m, FALSE, NoContext, Good) : m \in {NoMatcher, M_STR, M_BAD, M_TRUE}}
      \cup {EnforceCall(M_JSON, FALSE, NoContext, << >>)}
      \cup {EnforceCall(NoMatcher, FALSE, c, Good) : c \in MissingContexts}

NextPanic ==
    \/ \E c \in PanicCalls : Enforce(c.matcher, c.explains, c.ctx, c.rvals)
    \/ \E content \in PanicContents : LoadPolicy(Oracle0, content)
    \/ \E b \in BOOLEAN : EnableAcceptJsonRequest(b)

SpecPanic == Init /\ [][NextPanic]_vars

\* What enforce returns to the call c on the Enforcer E with the heap R.
Outcome(c, E, R) == RunEnforce(DecStart(c.matcher, c.explains, c.ctx, c.rvals), E, R).d.out

\* C9: a decision that panics returns the error and no positive decision;
\* it leaves the model with its policy tuples, rmMap, the role managers and
\* the toggles as they were, and every call gets from the Enforcer after it
\* what it would have got from the Enforcer before it.
C9_PanicIsIsolated ==
    [][(dec'.pc = "done" /\ dec'.out.err = ErrPanic) =>
          /\ ~dec'.out.ok
          /\ e'.model = e.model
          /\ e'.rmMap = e.rmMap
          /\ rms' = rms
          /\ e'.enabled = e.enabled
          /\ e'.autoBuildRoleLinks = e.autoBuildRoleLinks
          /\ e'.acceptJsonRequest = e.acceptJsonRequest
          /\ \A c \in PanicCalls : Outcome(c, e', rms') = Outcome(c, e, rms)]_vars

\* C9, its case: regexMatch has panicked on a policy field, the decision
\* returned the error, and the tuple is still in the table.
C9_Witness ==
    /\ Decided /\ dec.out.err = ErrPanic /\ ~dec.out.ok
    /\ dec.in.matcher = NoMatcher /\ dec.in.ctx = NoContext
    /\ e.model.p["p"].policy = C_REGEX["p"]


\* ---------------------------------------- policy loads and role links

LoadContents == {C_EMPTY, C_RBAC, C_HIER}

\* Requests of alice, of the role admin and of a stranger.
LoadCalls ==
    {EnforceCall(NoMatcher, FALSE, NoContext, <<sub, "data1">>) : sub \in {"alice", "admin", "bob"}}
      \cup {EnforceCall(NoMatcher, TRUE, NoContext, Good)}

NextLoad ==
    \/ \E c \in LoadCalls : Enforce(c.matcher, c.explains, c.ctx, c.rvals)
    \/ \E oracle \in LoadOracles, content \in LoadContents : LoadPolicy(oracle, content)
    \/ \E ptype \in {"g", "g2"} : SetNamedRoleManager(ptype)
    \/ \E order \in Orders : BuildRoleLinksOp(order, FALSE, FALSE)
    \/ \E b \in BOOLEAN : EnableAutoBuildRoleLinks(b)

SpecLoad == Init /\ [][NextLoad]_vars

\* LoadPolicy has returned (no operation followed it).
Loaded == ld.pc = "done"

\* The role manager of every g assertion holds exactly the links of its rules.
LinksMatch(E, R) ==
    \A k \in DOMAIN E.model.g \cap DOMAIN E.rmMap :
        R[E.rmMap[k]].links = LinksOf(E.model.g[k].policy)

\* C3 (as stated, for the error of clearing a role manager): a LoadPolicy
\* call that returns this error leaves the policy tuples as they were, and
\* with autoBuildRoleLinks the role managers, which held the links of these
\* tuples before the call, hold them after it.
C3_FailedClearKeepsLinks ==
    [][(ld'.pc = "done" /\ ld'.err = ErrClear) =>
          /\ \A k \in DOMAIN e.model.p : e'.model.p[k].policy = e.model.p[k].policy
          /\ \A k \in DOMAIN e.model.g : e'.model.g[k].policy = e.model.g[k].policy
          /\ (e.autoBuildRoleLinks /\ LinksMatch(e, rms)) => LinksMatch(e', rms')]_vars

\* a and b hold the same rows, each as often.
SameRows(a, b) ==
    /\ Len(a) = Len(b)
    /\ \A i \in 1..Len(a) :
          Cardinality({j \in 1..Len(a) : a[j] = a[i]}) = Cardinality({j \in 1..Len(b) : b[j] = a[i]})

\* No tuple of the table stands before a tuple of a subject that has its
\* subject as a role (directly or not) over the rows grows.
AncestorsLater(ast, key, grows) ==
    LET at == TokenIndex(ast.tokens, Tok(key, "sub"))
    IN at # -1 =>
          \A i \in 1..Len(ast.policy) : \A j \in (i + 1)..Len(ast.policy) :
              \/ ast.policy[i][at + 1] = ast.policy[j][at + 1]
              \/ ~HasLink(LinksOf(grows), ast.policy[j][at + 1], ast.policy[i][at + 1])

\* The tables of E hold the rows of content, in sorted order.
TablesHold(E, content) ==
    /\ \A k \in DOMAIN E.model.p :
          /\ SameRows(E.model.p[k].policy, IF k \in PolicyKeys THEN content[k] ELSE << >>)
          /\ AncestorsLater(E.model.p[k], k, content["g"])
    /\ \A k \in DOMAIN E.model.g :
          E.model.g[k].policy = (IF k \in RoleKeys THEN content[k] ELSE << >>)

\* The function g of every g assertion asks a role manager that holds
\* exactly the links of the g rows of content.
GraphsHold(E, R, content) ==
    \A k \in DOMAIN E.model.g :
        /\ E.model.g[k].rm # NoRM
        /\ R[E.model.g[k].rm].links = LinksOf(IF k \in RoleKeys THEN content[k] ELSE << >>)

\* The rows of content permit sub to reach obj: m = g(r.sub, p.sub) &&
\* regexMatch(r.obj, p.obj) with e = some(where (p.eft == allow)).
Permits(content, sub, obj) ==
    \E i \in 1..Len(content["p"]) :
        /\ HasLink(LinksOf(content["g"]), sub, content["p"][i][1])
        /\ obj = content["p"][i][2]

Idle(call) == call.pc \in {"idle", "done"}

ConcContents == {C_RBAC, C_HIER}

ConcCalls == {EnforceCall(NoMatcher, x, NoContext, Good) : x \in BOOLEAN}

\* A goroutine calls enforce.
EnforceBegin(c) ==
    /\ Idle(dec)
    /\ dec' = DecStart(c.matcher, c.explains, c.ctx, c.rvals)
    /\ gh' = [gh EXCEPT !.overlap = ~Idle(ld)]
    /\ UNCHANGED <<e, rms, ld, io, other>>

\* The goroutine in enforce has taken the step s.
Stepped(s) ==
    /\ dec' = s.d
    /\ e' = [e EXCEPT !.matcherMap = s.mm]
    /\ rms' = Collect(rms, Refs(e', s.d, ld))
    /\ UNCHANGED <<ld, gh, io, other>>

EnforceNext ==
    /\ ~Idle(dec)
    /\ Stepped(EnforceStep(dec, e, rms))

\* Another goroutine calls LoadPolicy; the store holds content.  (One
\* LoadPolicy call at a time, and one beside a decision.)
LoadBegin(content) ==
    /\ Idle(ld)
    /\ Idle(dec) \/ ~gh.overlap
    /\ ld' = [LoadStart(Oracle0) EXCEPT !.content = content]
    /\ dec' = IF Idle(dec) THEN DecIdle ELSE dec
    /\ gh' = [gh EXCEPT !.changed = @ \/ content # C_RBAC,
                        !.overlap = ~Idle(dec),
                        !.pre = [E |-> e, R |-> rms],
                        !.post = [x \in {"E", "R"} |->
                                    RunLoad(LoadStart(Oracle0), e, rms, content)[x]]]
    /\ UNCHANGED <<e, rms, io, other>>

\* Every expression compiled so far was compiled before this moment.
MarkOld(mm) == [x \in DOMAIN mm |-> [mm[x] EXCEPT !.old = TRUE]]

\* The goroutine in LoadPolicy has taken the step s.
LoadStepped(s) ==
    /\ ld' = s.l
    /\ e' = IF s.l.pc = "done" THEN [s.E EXCEPT !.matcherMap = MarkOld(@)] ELSE s.E
    /\ dec' = IF s.l.pc = "done" /\ ~Idle(dec) THEN [dec EXCEPT !.loc.expression.old = TRUE]
              ELSE dec
    /\ rms' = Collect(s.R, Refs(s.E, dec, s.l))
    /\ UNCHANGED <<gh, io, other>>

LoadNext ==
    /\ ~Idle(ld)
    /\ LoadStepped(LoadStep(ld, e, rms, ld.content))

NextConc ==
    \/ \E c \in ConcCalls : EnforceBegin(c)
    \/ EnforceNext
    \/ \E content \in ConcContents : LoadBegin(content)
    \/ LoadNext

SpecConc == Init /\ [][NextConc]_vars

\* C1 (as stated): a decision that ran beside a LoadPolicy call returns what
\* enforce returns on the Enforcer as it was before that call, or what it
\* returns on the Enforcer that call leaves.
C1_DecisionOfOneSnapshot ==
    (Decided /\ gh.overlap) =>
        dec.out \in {Outcome(dec.in, gh.pre.E, gh.pre.R), Outcome(dec.in, gh.post.E, gh.post.R)}

\* C2 (as stated): while the store keeps the rows NewEnforcer loaded, which
\* permit alice to reach data1 through her role, every Enforce(alice, data1)
\* returns true, also beside a LoadPolicy call.
C2_UnchangedStorePermits ==
    (Decided /\ ~gh.changed /\ dec.in.rvals = Good) => dec.out.ok

\* C6 (as stated): when no LoadPolicy call is in progress the matcher cache
\* holds no expression compiled before the last one returned.
C6_NoExpressionOlderThanReset ==
    Idle(ld) => \A x \in DOMAIN e.matcherMap : ~e.matcherMap[x].old

\* ------------------------------------- filtered loads and saved policies

\* The filters of a filtered load: nil, or the rows of one subject.
NoFilter == Nil
Filters == {NoFilter, "alice"}

\* The rows a filter selects.
FilterRows(content, filter) ==
    [k \in DOMAIN content |->
        IF filter = NoFilter THEN content[k]
        ELSE SelectSeq(content[k], LAMBDA row : row[1] = filter)]

\* Enforcer.loadFilteredPolicy: nothing is copied, the adapter and the sort
\* passes work on e.model.  filtered: what the adapter's IsFiltered reports
\* after the call (was: before it).
loadFilteredPolicy(E, R, oracle, content, filter, refs, was) ==
    LET E1 == invalidateMatcherMap(E)
        rows == FilterRows(content, filter)
        loaded == IF oracle.adapterErr = ErrEmptyPath THEN E1.model ELSE AdapterLoad(E1.model, rows)
        bySubject == SortPoliciesBySubjectHierarchy(loaded)
        sorted == SortPoliciesByPriority(bySubject)
        now == IF oracle.adapterErr = ErrEmptyPath THEN was ELSE filter # NoFilter
        i == initRmMap([E1 EXCEPT !.model = sorted], R, refs, oracle.failClear)
        b == BuildRoleLinks(i.E, i.R, oracle.order, oracle.failClear, oracle.failAdd)
    IN IF E.adapter # FilteredAdapter
       THEN [E |-> E1, R |-> R, err |-> ErrNotFiltered, filtered |-> was]
       ELSE IF oracle.adapterErr = ErrAdapter \/ (oracle.adapterErr = Nil /\ ~RowsFit(E1.model, rows))
       THEN [E |-> E1, R |-> R, err |-> ErrAdapter, filtered |-> was]
       ELSE IF oracle.sortErr = "hierarchy"
       THEN [E |-> [E1 EXCEPT !.model = loaded], R |-> R, err |-> ErrSort, filtered |-> now]
       ELSE IF oracle.sortErr # Nil
       THEN [E |-> [E1 EXCEPT !.model = bySubject], R |-> R, err |-> ErrSort, filtered |-> now]
       ELSE IF ~E.autoBuildRoleLinks
       THEN [E |-> i.E, R |-> i.R, err |-> Nil, filtered |-> now]
       ELSE [E |-> b.E, R |-> b.R, err |-> b.err, filtered |-> now]

\* Enforcer.LoadFilteredPolicy
LoadFilteredPolicy(E, R, oracle, content, filter, refs, was) ==
    loadFilteredPolicy([E EXCEPT !.model = ClearPolicy(E.model)], R, oracle, content, filter, refs, was)

\* Enforcer.IsFiltered
IsFiltered(E, x) == E.adapter = FilteredAdapter /\ x.isFiltered

\* The caller has the error of a filtered load r.
FilteredLoadReturns(r) ==
    /\ e' = r.E
    /\ rms' = Collect(r.R, Refs(r.E, DecIdle, LoadIdle))
    /\ dec' = DecIdle
    /\ ld' = LoadIdle
    /\ io' = Did("LoadFilteredPolicy", r.err, r.filtered, "none", FALSE, << >>)
    /\ other' = DecIdle
    /\ UNCHANGED gh

LoadFilteredPolicyOp(oracle, content, filter) ==
    FilteredLoadReturns(LoadFilteredPolicy(e, rms, oracle, content, filter,
                                           Refs(e, DecIdle, LoadIdle), io.isFiltered))

\* SetAdapter
SetAdapter(adapter) ==
    /\ Returned([e EXCEPT !.adapter = adapter], rms)
    /\ UNCHANGED gh

\* SetWatcher(watcher), of a watcher that takes the callback.
SetWatcher ==
    /\ Returned([e EXCEPT !.watcher = TRUE], rms)
    /\ UNCHANGED gh

\* A SavePolicy that does not ask whether the loaded policy is filtered.
SavePolicyUnguarded(E, x, saveErr, watcherErr) ==
    IF saveErr # Nil THEN Did("SavePolicy", saveErr, x.isFiltered, "failed", FALSE, << >>)
    ELSE IF E.watcher THEN Did("SavePolicy", watcherErr, x.isFiltered, "ok", TRUE, << >>)
    ELSE Did("SavePolicy", Nil, x.isFiltered, "ok", FALSE, << >>)

\* Enforcer.SavePolicy: saveErr is what the adapter's SavePolicy returns,
\* watcherErr what the watcher's Update or UpdateForSavePolicy returns.
SavePolicy(E, x, saveErr, watcherErr) ==
    IF IsFiltered(E, x) THEN Did("SavePolicy", ErrSaveFiltered, x.isFiltered, "none", FALSE, << >>)
    ELSE IF saveErr # Nil THEN Did("SavePolicy", saveErr, x.isFiltered, "failed", FALSE, << >>)
    ELSE IF E.watcher THEN Did("SavePolicy", watcherErr, x.isFiltered, "ok", TRUE, << >>)
    ELSE Did("SavePolicy", Nil, x.isFiltered, "ok", FALSE, << >>)

\* SavePolicy (of an Enforcer with an adapter: e.adapter.SavePolicy on a nil
\* adapter ends the program).
SavePolicyOp(saveErr, watcherErr) ==
    /\ e.adapter # NoAdapter
    /\ io' = SavePolicy(e, io, saveErr, watcherErr)
    /\ other' = DecIdle
    /\ rms' = Collect(rms, Refs(e, DecIdle, LoadIdle))
    /\ dec' = DecIdle
    /\ ld' = LoadIdle
    /\ UNCHANGED <<e, gh>>

NextFiltered ==
    \/ \E oracle \in Faults, content \in LoadContents, filter \in Filters :
          LoadFilteredPolicyOp(oracle, content, filter)
    \/ \E saveErr \in {Nil, ErrSave}, watcherErr \in {Nil, ErrWatcher} : SavePolicyOp(saveErr, watcherErr)
    \/ \E adapter \in {PlainAdapter, FilteredAdapter} : SetAdapter(adapter)
    \/ SetWatcher
    \/ \E m \in Models : SetModel(m)
    \/ \E content \in LoadContents : LoadPolicy(Oracle0, content)
    \/ SetNamedRoleManager("g")
    \/ \E b \in BOOLEAN : EnableAutoBuildRoleLinks(b)

SpecFiltered == Init /\ [][NextFiltered]_vars

\* The tables of E2 hold the tuples of the tables of E1.
SameTuples(E1, E2) ==
    /\ \A k \in DOMAIN E1.model.p : E2.model.p[k].policy = E1.model.p[k].policy
    /\ \A k \in DOMAIN E1.model.g : E2.model.g[k].policy = E1.model.g[k].policy

\* The role managers of E2 in R2 hold the links of those of E1 in R1.
SameGraphs(E1, R1, E2, R2) ==
    /\ DOMAIN E2.rmMap = DOMAIN E1.rmMap
    /\ \A k \in DOMAIN E1.rmMap : R2[E2.rmMap[k]].links = R1[E1.rmMap[k]].links

\* C11 (as stated): a LoadFilteredPolicy call that returns an error leaves
\* the policy tuples and the role graphs of the Enforcer as they were
\* before the call.
C11_FailedFilteredLoadKeepsPolicy ==
    [][(io'.op = "LoadFilteredPolicy" /\ io'.err # Nil) =>
          (SameTuples(e, e') /\ SameGraphs(e, rms, e', rms'))]_vars

\* C16: a SavePolicy call made when the adapter reports a filtered policy
\* returns an error, has not called the adapter's SavePolicy and has not
\* notified the watcher; a SavePolicy call that notified the watcher did
\* so after the adapter's SavePolicy returned no error.
C16_FilteredPolicyIsNotSaved ==
    io.op = "SavePolicy" =>
        /\ IsFiltered(e, io) => (io.err # Nil /\ io.save = "none" /\ ~io.notified)
        /\ io.notified => io.save = "ok"

\* SavePolicy has refused a filtered policy of an Enforcer with a watcher.
C16_Witness ==
    /\ io.op = "SavePolicy"
    /\ IsFiltered(e, io)
    /\ e.watcher
    /\ io.err = ErrSaveFiltered

\* ---------------------------------------------------------- NewEnforcer

ErrParams == "invalid parameters for enforcer"
ErrModelFile == "model file error"

\* The parameters of NewEnforcer: a string, a model, an adapter, a bool, a logger.
Param(k, path, m, a) == [k |-> k, path |-> path, m |-> m, a |-> a]
PString(path) == Param("string", path, NoModel, NilAdapter)
PModel(m) == Param("model", "", m, NilAdapter)
PAdapter(a) == Param("adapter", "", NoModel, a)
PBool == Param("bool", "", NoModel, NilAdapter)
PLogger == Param("logger", "", NoModel, NilAdapter)

\* The files: a model file of the RBAC model, a policy file with its rows.
ModelPath == "rbac_model.conf"
PolicyPath == "rbac_policy.csv"

\* model.NewModelFromFile(modelPath)
NewModelFromFile(modelPath) == IF modelPath = ModelPath THEN ModelRBAC ELSE NoModel

\* fileadapter.NewAdapter(policyPath): LoadPolicy of an adapter with the
\* empty path returns the error the Enforcer passes over.
NewFileAdapter(policyPath) ==
    IF policyPath = "" THEN Adapter(PlainAdapter, C_EMPTY, FALSE, ErrEmptyPath)
    ELSE IF policyPath = PolicyPath THEN Adapter(PlainAdapter, C_RBAC, FALSE, Nil)
    ELSE Adapter(PlainAdapter, C_EMPTY, FALSE, ErrAdapter)

\* An Enforcer that no Init function has touched.
Untouched == [l |-> LoadIdle, E |-> Enforcer0, R |-> Heap0]

\* InitWithAdapter(modelPath, adapter)
InitWithAdapter(modelPath, a) ==
    IF modelPath # ModelPath THEN [Untouched EXCEPT !.l.err = ErrModelFile]
    ELSE InitWithModelAndAdapter(NewModelFromFile(modelPath), a)

\* InitWithFile(modelPath, policyPath)
InitWithFile(modelPath, policyPath) == InitWithAdapter(modelPath, NewFileAdapter(policyPath))

\* The number of trailing parameters NewEnforcer takes as enableLog and logger.
ParsedParamLen(params) ==
    LET n == Len(params)
        b == IF n >= 1 /\ params[n].k = "bool" THEN 1 ELSE 0
    IN IF n - b >= 1 /\ params[n - b].k = "logger" THEN b + 1 ELSE b

\* The type assertions p1.(persist.Adapter), p0.(model.Model), params[1].(persist.Adapter)
\* hold (a parameter list for which one fails ends the program).
Asserted(params) ==
    LET rest == Len(params) - ParsedParamLen(params)
    IN /\ rest = 2 /\ params[1].k = "string" /\ params[2].k # "string" => params[2].k = "adapter"
       /\ rest = 2 /\ params[1].k # "string" /\ params[2].k # "string" =>
             (params[1].k = "model" /\ params[2].k = "adapter")
       /\ rest = 1 /\ params[1].k # "string" => params[1].k = "model"

\* NewEnforcer(params...): l.err is the error it returns, E and R the Enforcer.
NewEnforcer(params) ==
    LET rest == Len(params) - ParsedParamLen(params)
    IN IF rest = 2
       THEN IF params[1].k = "string"
            THEN IF params[2].k = "string" THEN InitWithFile(params[1].path, params[2].path)
                 ELSE InitWithAdapter(params[1].path, params[2].a)
            ELSE IF params[2].k = "string" THEN [Untouched EXCEPT !.l.err = ErrParams]
                 ELSE InitWithModelAndAdapter(params[1].m, params[2].a)
       ELSE IF rest = 1
       THEN IF params[1].k = "string" THEN InitWithFile(params[1].path, "")
            ELSE InitWithModelAndAdapter(params[1].m, NilAdapter)
       ELSE IF rest = 0 THEN Untouched
       ELSE [Untouched EXCEPT !.l.err = ErrParams]

\* The leading parameters: none, a model, a model file, with or without a
\* policy file or an adapter, a list that is too long, a string after a model.
Leading ==
    {<< >>, <<PModel(ModelRBAC)>>, <<PModel(ModelMulti)>>, <<PString(ModelPath)>>,
     <<PString("missing.conf")>>,
     <<PString(ModelPath), PString(PolicyPath)>>, <<PString(ModelPath), PString("")>>,
     <<PString(ModelPath), PString("missing.csv")>>,
     <<PString(ModelPath), PAdapter(NewAdapter(C_HIER))>>,
     <<PModel(ModelRBAC), PAdapter(NewAdapter(C_RBAC))>>,
     <<PModel(ModelMulti), PAdapter(NewAdapter(C_RULE))>>,
     <<PModel(ModelRBAC), PAdapter(Adapter(FilteredAdapter, C_RBAC, TRUE, Nil))>>,
     <<PModel(ModelRBAC), PAdapter(Adapter(FilteredAdapter, C_RBAC, FALSE, Nil))>>,
     <<PModel(ModelRBAC), PAdapter(NilAdapter)>>,
     <<PModel(ModelRBAC), PString(PolicyPath)>>,
     <<PString(ModelPath), PString(PolicyPath), PString(PolicyPath)>>}

\* The parameter lists: the leading parameters, then a logger, an enableLog, or both.
ParamLists ==
    {lead \o trail : lead \in Leading,
                     trail \in {<< >>, <<PBool>>, <<PLogger>>, <<PLogger, PBool>>}}

\* NewEnforcer(params...) returned an Enforcer and no error.
InitNew ==
    \E params \in ParamLists :
        LET n == NewEnforcer(params)
        IN /\ Asserted(params)
           /\ n.l.err = Nil
           /\ Constructed([n EXCEPT !.l = LoadIdle], LoadIdle.content)

EnableAutoSave(autoSave) ==
    /\ Returned([e EXCEPT !.autoSave = autoSave], rms)
    /\ UNCHANGED gh

EnableAutoNotifyWatcher(enable) ==
    /\ Returned([e EXCEPT !.autoNotifyWatcher = enable], rms)
    /\ UNCHANGED gh

EnableAutoNotifyDispatcher(enable) ==
    /\ Returned([e EXCEPT !.autoNotifyDispatcher = enable], rms)
    /\ UNCHANGED gh

NextNew ==
    \/ \E c \in LoadCalls : Enforce(c.matcher, c.explains, c.ctx, c.rvals)
    \/ \E m \in Models : SetModel(m)
    \/ \E b \in BOOLEAN : EnableEnforce(b)
    \/ \E b \in BOOLEAN : EnableAutoSave(b)
    \/ \E b \in BOOLEAN : EnableAutoNotifyWatcher(b)
    \/ \E b \in BOOLEAN : EnableAutoNotifyDispatcher(b)
    \/ \E b \in BOOLEAN : EnableAcceptJsonRequest(b)

SpecNew == InitNew /\ [][NextNew]_vars

\* C15 (as stated): an Enforcer that NewEnforcer has just returned without
\* error has enabled, autoSave, autoBuildRoleLinks, autoNotifyWatcher and
\* autoNotifyDispatcher true and acceptJsonRequest false.
C15_NewEnforcerDefaults ==
    io.op = "NewEnforcer" =>
        /\ e.enabled /\ e.autoSave /\ e.autoBuildRoleLinks
        /\ e.autoNotifyWatcher /\ e.autoNotifyDispatcher
        /\ ~e.acceptJsonRequest

\* ------------------------------------------- decisions over the tuples

\* The multi example with the effect expression of a deny-override model.
ModelDeny == [ModelMulti EXCEPT !.e = [k \in {"e"} |-> E_DENY]]

DecideModels == {ModelRBAC, ModelMulti, ModelDeny}

\* A store whose p2 rules carry the effects deny, another word, allow.
C_EFT ==
    [C_EMPTY EXCEPT
       !["p"] = << <<"admin", "data1">> >>,
       !["g"] = << <<"alice", "admin">> >>,
       !["p2"] = << <<RULE_ALICE, "data1", "deny">>, <<RULE_ALICE, "data1", "maybe">>,
                    <<RULE_ALICE, "data1", "allow">>, <<RULE_ALICE, "data2", "allow">> >>]

DecideContents == {C_EMPTY, C_HIER, C_EFT}

\* A context that names an effect assertion no model declares.
NoEffectContext == [NoContext EXCEPT !.use = TRUE, !.EType = "e3"]

\* The enforce calls: the model's matchers on the requests of alice, of a
\* stranger and of the empty subject, with and without an explanation; the
\* constant matchers; a short request; a missing effect assertion.
DecideCalls ==
    {EnforceCall(NoMatcher, x, c, <<sub, "data1">>) :
        x \in BOOLEAN, c \in {NoContext, MultiContext}, sub \in {"alice", "bob", ""}}
      \cup {EnforceCall(m, x, NoContext, Good) : m \in {M_TRUE, M_FALSE}, x \in BOOLEAN}
      \cup {EnforceCall(NoMatcher, FALSE, NoContext, Short),
            EnforceCall(M_TRUE, FALSE, NoEffectContext, Good)}

\* A request of a batch: its values, an EnforceContext first or none.
Request(ctx, rvals) == [ctx |-> ctx, rvals |-> rvals]

BatchRequests ==
    {Request(NoContext, Good), Request(NoContext, Short), Request(MultiContext, Good)}

\* The longest batch.
MaxBatch == 2

Batches == UNION {[1..n -> BatchRequests] : n \in 1..MaxBatch}

RECURSIVE BatchEnforceAll(_, _, _, _)
\* A BatchEnforce that appends the result of the failing request too.
BatchEnforceAll(requests, results, E, R) ==
    IF requests = << >> THEN [results |-> results, err |-> Nil, mm |-> E.matcherMap]
    ELSE LET r == RunEnforce(DecStart(NoMatcher, FALSE, Head(requests).ctx, Head(requests).rvals), E, R)
         IN IF r.d.out.err # Nil
            THEN [results |-> Append(results, r.d.out.ok), err |-> r.d.out.err, mm |-> r.mm]
            ELSE BatchEnforceAll(Tail(requests), Append(results, r.d.out.ok),
                                 [E EXCEPT !.matcherMap = r.mm], R)

RECURSIVE BatchEnforce(_, _, _, _)
\* BatchEnforce(requests): enforce("", nil, request...) for each request in
\* turn, until one returns an error; results are those appended so far.
BatchEnforce(requests, results, E, R) ==
    IF requests = << >> THEN [results |-> results, err |-> Nil, mm |-> E.matcherMap]
    ELSE LET r == RunEnforce(DecStart(NoMatcher, FALSE, Head(requests).ctx, Head(requests).rvals), E, R)
         IN IF r.d.out.err # Nil THEN [results |-> results, err |-> r.d.out.err, mm |-> r.mm]
            ELSE BatchEnforce(Tail(requests), Append(results, r.d.out.ok),
                              [E EXCEPT !.matcherMap = r.mm], R)

\* The caller has the results b of BatchEnforce(requests).
BatchReturns(b, requests) ==
    /\ e' = [e EXCEPT !.matcherMap = b.mm]
    /\ rms' = Collect(rms, Refs(e', DecIdle, LoadIdle))
    /\ dec' = DecIdle
    /\ ld' = LoadIdle
    /\ io' = [Did("BatchEnforce", b.err, io.isFiltered, "none", FALSE, b.results)
                EXCEPT !.requests = requests]
    /\ other' = DecIdle
    /\ UNCHANGED gh

BatchEnforceOp(requests) == BatchReturns(BatchEnforce(requests, << >>, e, rms), requests)

NextDecide ==
    \/ \E c \in DecideCalls : Enforce(c.matcher, c.explains, c.ctx, c.rvals)
    \/ \E content \in DecideContents : LoadPolicy(Oracle0, content)
    \/ \E m \in DecideModels : SetModel(m)
    \/ \E b \in BOOLEAN : EnableEnforce(b)

SpecDecide == Init /\ [][NextDecide]_vars

\* The assertions the call of dec selects exist.
Selected ==
    /\ dec.in.ctx.RType \in DOMAIN e.model.r
    /\ dec.in.ctx.PType \in DOMAIN e.model.p
    /\ dec.in.ctx.EType \in DOMAIN e.model.e
    /\ dec.in.matcher = NoMatcher => dec.in.ctx.MType \in DOMAIN e.model.m

\* The matcher source, the policy assertion, its tuples and the effect
\* expression of the call of dec.
Source == IF dec.in.matcher = NoMatcher THEN e.model.m[dec.in.ctx.MType] ELSE dec.in.matcher
Assertion == e.model.p[dec.in.ctx.PType]
Table == Assertion.policy
EffectExpr == e.model.e[dec.in.ctx.EType]

\* The function table of a decision on e for the source src.
FunctionTable(src) ==
    [name \in {"regexMatch"} \cup DOMAIN e.model.g \cup (IF HasEval(src) THEN {"eval"} ELSE {}) |->
        IF name \in DOMAIN e.model.g THEN [kind |-> "g", rm |-> e.model.g[name].rm]
        ELSE IF name = "eval" THEN [kind |-> "eval", rm |-> NoRM]
        ELSE [kind |-> name, rm |-> NoRM]]

\* The value of the matcher of the call of dec on the tuple values pVals.
MatcherValue(pVals) ==
    Evaluate(rms, Source, FunctionTable(Source),
             [rTokens |-> e.model.r[dec.in.ctx.RType], rVals |-> dec.in.rvals,
              pTokens |-> Assertion.tokens, pVals |-> pVals])

\* A matcher result that counts as a match.
Counts(v) == (v.t = "bool" /\ v.v = "true") \/ (v.t = "num" /\ v.v # "0")

\* The tuple at position i of the table has effect Allow: the assertion has
\* no eft token or the eft field of the tuple is "allow".
TupleAllows(i) ==
    \A j \in 1..Len(Assertion.tokens) :
        Assertion.tokens[j] = Tok(dec.in.ctx.PType, "eft") => Table[i][j] = "allow"

\* The positions of the tuples that have effect Allow and a match.
Allowing == {i \in 1..Len(Table) : TupleAllows(i) /\ Counts(MatcherValue(Table[i]))}

\* The positions of the tuples the decision of dec has evaluated.
EvaluatedTuples == {dec.tr[i].index + 1 : i \in {j \in 1..Len(dec.tr) : dec.tr[j].kind = "eval"}}

\* The decision is true iff a tuple allows; no tuple after the first
\* allowing tuple was evaluated.
FirstAllowingDecides(allowing) ==
    /\ dec.out.ok <=> allowing # {}
    /\ \A i \in allowing : \A k \in EvaluatedTuples : k <= i

\* C12 (as stated): with the effect expression some(where (p.eft == allow))
\* and a matcher that references the policy tokens, enforce returns true
\* iff a tuple of the selected table has effect Allow and a match, and it
\* evaluates no tuple after the first such tuple.
C12_AllowIffSomeTupleAllows ==
    (Decided /\ Selected /\ EffectExpr = E_ALLOW /\ ContainsPType(Source, dec.in.ctx.PType))
        => FirstAllowingDecides(Allowing)

\* C12, amended: the same for an enabled Enforcer, a table that is not
\* empty and a decision that returns no error.
C12_EnabledAllowIffSomeTupleAllows ==
    (Decided /\ e.enabled /\ Selected /\ EffectExpr = E_ALLOW
       /\ ContainsPType(Source, dec.in.ctx.PType) /\ Table # << >> /\ dec.out.err = Nil)
        => FirstAllowingDecides(Allowing)

\* C12, its case: the third of four p2 rules is the first that allows, the
\* fourth was not evaluated.
C12_Witness ==
    /\ Decided /\ e.enabled /\ dec.out.ok /\ dec.out.err = Nil
    /\ dec.in.ctx = MultiContext /\ dec.in.matcher = NoMatcher
    /\ EffectExpr = E_ALLOW
    /\ Len(Table) = 4
    /\ Allowing = {3}
    /\ EvaluatedTuples = {1, 2, 3}

\* The request of the call of dec has as many values as the request
\* assertion has tokens.
ArityFits == Len(dec.in.rvals) = Len(e.model.r[dec.in.ctx.RType])

\* The decision of a constant matcher: true for the constant true, onFalse
\* for the constant false.
ConstantDecides(onFalse) ==
    /\ dec.in.matcher = M_TRUE => (dec.out.ok /\ dec.out.err = Nil)
    /\ dec.in.matcher = M_FALSE => (dec.out.ok = onFalse /\ dec.out.err = Nil)

NextBatch ==
    \/ \E requests \in Batches : BatchEnforceOp(requests)
    \/ \E c \in {EnforceCall(NoMatcher, FALSE, r.ctx, r.rvals) : r \in BatchRequests} :
          Enforce(c.matcher, c.explains, c.ctx, c.rvals)
    \/ \E content \in DecideContents : LoadPolicy(Oracle0, content)
    \/ \E m \in DecideModels : SetModel(m)
    \/ \E b \in BOOLEAN : EnableEnforce(b)

SpecBatch == Init /\ [][NextBatch]_vars

\* What Enforce(request...) returns on the Enforcer E with the heap R.
Alone(request, E, R) == Outcome(EnforceCall(NoMatcher, FALSE, request.ctx, request.rvals), E, R)

\* results and err are what the requests give one by one on E: a result per
\* request up to the first request that fails, and the error of that one.
OneByOne(requests, results, err, E, R) ==
    /\ Len(results) <= Len(requests)
    /\ \A i \in 1..Len(results) :
          /\ Alone(requests[i], E, R).err = Nil
          /\ results[i] = Alone(requests[i], E, R).ok
    /\ IF err = Nil THEN Len(results) = Len(requests)
       ELSE /\ Len(results) < Len(requests)
            /\ Alone(requests[Len(results) + 1], E, R).err = err

\* C14: BatchEnforce returns for every request the decision Enforce returns
\* for it on the same Enforcer (so BatchEnforce([R])[0] is Enforce(R)), and
\* when a request fails it returns the error of this request and the
\* results of the requests before it.
C14_BatchIsEnforceOneByOne ==
    [][io'.op = "BatchEnforce" =>
          OneByOne(io'.requests, io'.results, io'.err, e, rms)]_vars

\* C14, its case: a batch of two whose second request fails, with the
\* result of the first, which was permitted.
C14_Witness ==
    /\ io.op = "BatchEnforce"
    /\ Len(io.requests) = 2
    /\ io.results = << TRUE >>
    /\ io.err = ErrRequestSize
    /\ e.enabled

\* ------------------------------------- the history of a decision

\* The calls of the effect aggregator in the history of dec.
Merges == {i \in 1..Len(dec.tr) : dec.tr[i].kind = "merge"}

\* The history is: tuple 0 evaluated, the aggregator called after tuple 0,
\* tuple 1 evaluated, the aggregator called after tuple 1, ...
InStoredOrder ==
    \A i \in 1..Len(dec.tr) :
        IF i % 2 = 1
        THEN dec.tr[i].kind = "eval" /\ dec.tr[i].index = (i - 1) \div 2
        ELSE dec.tr[i].kind = "merge" /\ dec.tr[i].index = (i \div 2) - 1

\* Nothing follows a call of the aggregator that returned an effect other
\* than Indeterminate.
StopsAtDefinitive ==
    \A i \in Merges : dec.tr[i].effect # Indeterminate => i = Len(dec.tr)

\* C17: a decision evaluates the tuples of the selected table in the order
\* of their indexes from 0, calls the effect aggregator once after each
\* tuple it has evaluated (a decision that returns no error has no tuple
\* without its call), and evaluates no tuple after the first call that
\* returned an effect other than Indeterminate.
C17_TuplesInOrderUntilDefinitive ==
    Decided =>
        /\ InStoredOrder
        /\ \A i \in 1..Len(dec.tr) : dec.tr[i].index < Len(Table)
        /\ dec.out.err = Nil => Len(dec.tr) % 2 = 0
        /\ StopsAtDefinitive

\* C17, its case: under !some(where (p.eft == deny)) the first of four p2
\* rules denies, and the decision ends with it.
C17_Witness ==
    /\ Decided /\ e.enabled /\ dec.out.err = Nil /\ ~dec.out.ok
    /\ dec.in.ctx = MultiContext
    /\ EffectExpr = E_DENY
    /\ Len(Table) = 4
    /\ Len(dec.tr) = 2
    /\ dec.tr[2].effect = Deny

\* The effect of the tuple at position i of the selected table.
EffectOf(i) ==
    LET at == {j \in 1..Len(Assertion.tokens) : Assertion.tokens[j] = Tok(dec.in.ctx.PType, "eft")}
    IN IF at = {} THEN Allow
       ELSE IF \E j \in at : Table[i][j] = "allow" THEN Allow
       ELSE IF \E j \in at : Table[i][j] = "deny" THEN Deny
       ELSE Indeterminate

\* C19: the effect a decision hands to the aggregator for a tuple is Allow
\* when the selected policy assertion has no eft token, else Allow for the
\* eft field "allow", Deny for "deny" and Indeterminate for another value.
C19_TupleEffectFollowsEft ==
    Decided => \A i \in Merges : dec.tr[i].eft = EffectOf(dec.tr[i].index + 1)

\* C19, its case: the p2 rules of the multi context with the eft fields
\* deny, maybe and allow.
C19_Witness ==
    /\ Decided /\ dec.in.ctx = MultiContext
    /\ Len(dec.tr) = 6
    /\ Table[1][3] = "deny" /\ dec.tr[2].eft = Deny
    /\ Table[2][3] = "maybe" /\ dec.tr[4].eft = Indeterminate
    /\ Table[3][3] = "allow" /\ dec.tr[6].eft = Allow

\* C20 (as stated): the explanation of a decision is empty or a tuple of
\* the selected table that this decision evaluated to a match.
C20_ExplanationIsAMatchedTuple ==
    (Decided /\ dec.in.explains) =>
        \/ dec.out.explain = << >>
        \/ \E i \in Merges : dec.tr[i].match = 1 /\ Table[dec.tr[i].index + 1] = dec.out.explain

\* ------------------------------------ matchers that return no boolean

\* A store whose p2 rules are the numbers 0 and 1.
C_NUM ==
    [C_EMPTY EXCEPT
       !["p"] = << <<"admin", "data1">> >>,
       !["g"] = << <<"alice", "admin">> >>,
       !["p2"] = << <<"0", "data1", "allow">>, <<"1", "data1", "allow">> >>]

NumericContents == {C_EMPTY, C_NUM}

\* The enforce calls: matchers of the caller whose result is a number or a
\* string, evaluated once (no policy token) or per tuple (p2 tokens).
NumericCalls ==
    {EnforceCall(m, FALSE, NoContext, Good) : m \in {M_ONE, M_ZERO, M_STR, M_TRUE}}
      \cup {EnforceCall(m, FALSE, MultiContext, Good) : m \in {M_EVALP2, M_POBJ}}

NextNumeric ==
    \/ \E c \in NumericCalls : Enforce(c.matcher, c.explains, c.ctx, c.rvals)
    \/ \E content \in NumericContents : LoadPolicy(Oracle0, content)
    \/ \E m \in Models : SetModel(m)
    \/ \E b \in BOOLEAN : EnableEnforce(b)

SpecNumeric == Init /\ [][NextNumeric]_vars

\* The tuple values of the single evaluation: an empty string per token.
EmptyTuple == [j \in 1..Len(Assertion.tokens) |-> ""]

\* The weight of a matcher result: 1 for true or a number other than zero.
Weight(v) == IF Counts(v) THEN 1 ELSE 0

\* The decision of dec iterated the tuples: every weight it handed to the
\* aggregator is that of the matcher result on the tuple, and a result
\* that is neither a boolean nor a number made it fail.
IteratedByWeight ==
    /\ \A i \in Merges : dec.tr[i].match = Weight(MatcherValue(Table[dec.tr[i].index + 1]))
    /\ (\E k \in EvaluatedTuples : MatcherValue(Table[k]).t = "str") => dec.out.err # Nil

\* The decision of dec evaluated the matcher once, to v: a number decides
\* by its weight, a string makes it fail.
SingleByWeight(v) ==
    /\ v.t = "num" => (dec.out.err = Nil /\ dec.out.ok = (Weight(v) = 1))
    /\ v.t = "str" => dec.out.err # Nil

\* C18 (as stated, under some(where (p.eft == allow))): in the tuple loop
\* and in the single evaluation with empty tuple values alike, a numeric
\* matcher result other than zero is a match, zero is no match, and a
\* result that is neither a boolean nor a number is an error.
C18_NumericResultsCount ==
    (Decided /\ e.enabled /\ Selected /\ ArityFits /\ EffectExpr = E_ALLOW) =>
        IF Table # << >> /\ ContainsPType(Source, dec.in.ctx.PType)
        THEN IteratedByWeight
        ELSE SingleByWeight(MatcherValue(EmptyTuple))

\* ---------------------------------------------------- the matcher cache

\* The decision of the call c on the Enforcer E when it reaches the cache
\* lookup of getAndStoreMatcherExpression (or where it ended before it).
AtLookup(c, E) == StepStart(DecStart(c.matcher, c.explains, c.ctx, c.rvals), E)

\* No call whose matcher contains eval() takes its expression from the cache.
CompilesAnew ==
    \A c \in Calls :
        (AtLookup(c, e).pc = "load" /\ AtLookup(c, e).loc.hasEval)
            => StepLoad(AtLookup(c, e), e).pc # "check"

\* C21 (as stated): a decision whose matcher contains eval() compiles the
\* source anew and takes no expression from the matcher cache, and the
\* matcher cache holds no entry for a source that contains eval().
C21_EvalIsNotCached ==
    /\ CompilesAnew
    /\ \A src \in DOMAIN e.matcherMap : ~HasEval(src)

\* --------------------------------- role managers and the matcher cache

\* A store with the tuple of the role admin and no role of alice.
C_P == [C_EMPTY EXCEPT !["p"] = << <<"admin", "data1">> >>]

RoleContents == {C_RBAC, C_P}

\* Enforce(alice, data1) and Enforce(admin, data1).
RoleCalls == {EnforceCall(NoMatcher, FALSE, NoContext, r) : r \in {Good, <<"admin", "data1">>}}

\* One caller who replaces the role manager, rebuilds the role links by
\* hand or leaves it to LoadPolicy, and decides requests in between.
NextRoles ==
    \/ \E c \in RoleCalls : Enforce(c.matcher, c.explains, c.ctx, c.rvals)
    \/ SetNamedRoleManager("g")
    \/ BuildRoleLinksOp(Oracle0.order, FALSE, FALSE)
    \/ \E content \in RoleContents : LoadPolicy(Oracle0, content)
    \/ \E b \in BOOLEAN : EnableAutoBuildRoleLinks(b)
    \/ \E m \in Models : SetModel(m)

SpecRoles == Init /\ [][NextRoles]_vars

\* C22 (as stated): the decision a call returned, with the expression of
\* the matcher cache where it held one, is the decision the same call gets
\* from the same Enforcer with an empty matcher cache.
C22_CacheHitIsCacheMiss ==
    Decided => dec.out = Outcome(dec.in, invalidateMatcherMap(e), rms)

\* C26 (as stated): the function a decision binds to the key of a
\* role-definition assertion queries the role manager registered in the
\* Enforcer for that key (the one the last SetRoleManager or
\* SetNamedRoleManager call for the key gave it).
C26_GFunctionOfRegisteredRoleManager ==
    (Decided /\ AtLookup(dec.in, e).pc = "load") =>
        \A key \in DOMAIN e.model.g \cap DOMAIN e.rmMap :
            AtLookup(dec.in, e).loc.functions[key] = [kind |-> "g", rm |-> e.rmMap[key]]

\* ------------------------------------- two decisions beside each other

\* Enforce(alice, data1), from both goroutines.
RaceCalls == {EnforceCall(NoMatcher, FALSE, NoContext, Good)}

\* A second goroutine calls enforce.
OtherBegin(c) ==
    /\ Idle(other)
    /\ other' = DecStart(c.matcher, c.explains, c.ctx, c.rvals)
    /\ UNCHANGED <<e, rms, dec, ld, gh, io>>

\* The second goroutine has taken the step s.
OtherStepped(s) ==
    /\ other' = s.d
    /\ e' = [e EXCEPT !.matcherMap = s.mm]
    /\ UNCHANGED <<rms, dec, ld, gh, io>>

OtherNext ==
    /\ ~Idle(other)
    /\ OtherStepped(EnforceStep(other, e, rms))

\* Two goroutines in enforce and one in LoadPolicy, whose first statement
\* is invalidateMatcherMap.
NextRace ==
    \/ \E c \in RaceCalls : EnforceBegin(c)
    \/ EnforceNext
    \/ \E c \in RaceCalls : OtherBegin(c)
    \/ OtherNext
    \/ LoadBegin(C_RBAC)
    \/ LoadNext

SpecRace == Init /\ [][NextRace]_vars

\* The step is e.matcherMap.Store (line 822) of the decision that was d.
Inserts(d, d2) == d.pc = "store" /\ d2.pc = "check"

\* The step is invalidateMatcherMap of the LoadPolicy call.
Resets == ld.pc = "start" /\ ld'.pc = "adapter"

\* C23 (as stated): of the decisions that compiled a source the cache did
\* not hold, one inserts its expression and no other does (a decision
\* inserts no expression for a source the cache holds by then), and the
\* reset of the cache beside lookups and inserts leaves it empty, so every
\* entry it holds later was inserted after the reset.
C23_OneInsertPerSource ==
    [][/\ Inserts(dec, dec') => dec.loc.expString \notin DOMAIN e.matcherMap
       /\ Inserts(other, other') => other.loc.expString \notin DOMAIN e.matcherMap
       /\ Resets => e'.matcherMap = << >>]_vars

\* ------------------------------------------- functions of the caller

\* A function of the caller: it returns true whatever its arguments.
UserFunction == [kind |-> "user", rm |-> NoRM]

\* The names the caller registers: those of the role-definition key, of
\* eval, of a built-in function and a name of its own.
UserNames == {"g", "eval", "regexMatch", "regexMatch1"}

\* e.fm.AddFunction(name, function)
FunctionAdded(E, name) ==
    [E EXCEPT !.fm = [n \in DOMAIN E.fm \cup {name} |->
                        IF n = name THEN UserFunction ELSE E.fm[n]]]

\* Enforcer.AddFunction(name, function)
AddFunction(name) ==
    /\ Returned(FunctionAdded(e, name), rms)
    /\ UNCHANGED gh

\* Decisions with the matcher of the model, which calls g and regexMatch,
\* and with the matcher of the multi example, which calls eval.
FunctionCalls ==
    {EnforceCall(NoMatcher, FALSE, NoContext, r) : r \in {Good, <<"bob", "data1">>}}
        \cup {EnforceCall(NoMatcher, FALSE, MultiContext, Good)}

NextFunctions ==
    \/ \E name \in UserNames : AddFunction(name)
    \/ \E c \in FunctionCalls : Enforce(c.matcher, c.explains, c.ctx, c.rvals)
    \/ \E content \in {C_RBAC, C_RULE} : LoadPolicy(Oracle0, content)
    \/ \E m \in Models : SetModel(m)

SpecFunctions == Init /\ [][NextFunctions]_vars

\* The names the caller has registered since the function map was made.
Registered == {name \in DOMAIN e.fm : e.fm[name] = UserFunction}

\* The function the table of a decision with the matcher source src must
\* hold for name: the role-graph function of the assertion over a function
\* of the caller over a built-in function, and the generated eval.
ByPrecedence(name, src) ==
    IF name \in DOMAIN e.model.g THEN [kind |-> "g", rm |-> e.model.g[name].rm]
    ELSE IF name = "eval" /\ HasEval(src) THEN [kind |-> "eval", rm |-> NoRM]
    ELSE IF name \in Registered THEN UserFunction
    ELSE LoadFunctionMap[name]

\* The function table fns of a decision with the source src is the one the
\* precedence gives.
TableByPrecedence(fns, src) ==
    /\ DOMAIN fns = DOMAIN LoadFunctionMap \cup Registered \cup DOMAIN e.model.g
                      \cup (IF HasEval(src) THEN {"eval"} ELSE {})
    /\ \A name \in DOMAIN fns : fns[name] = ByPrecedence(name, src)

\* C24: in the function table of a decision the key of every
\* role-definition assertion is bound to the role-graph function of that
\* assertion, also when the caller registered a function of this name;
\* eval is bound to the generated eval function when the matcher contains
\* eval(); every other name is bound to the caller's function if the
\* caller registered one, else to the built-in function.
C24_FunctionPrecedence ==
    (Decided /\ AtLookup(dec.in, e).pc = "load") =>
        TableByPrecedence(AtLookup(dec.in, e).loc.functions, AtLookup(dec.in, e).loc.expString)

\* C24, its case: the caller registered functions named g and regexMatch,
\* which return true; bob, who has no role, is refused data1 by the
\* role-graph function g.
C24_Witness ==
    /\ Decided /\ e.enabled
    /\ {"g", "regexMatch"} \subseteq Registered
    /\ dec.in.rvals = <<"bob", "data1">>
    /\ e.model.p["p"].policy = << <<"admin", "data1">> >>
    /\ AtLookup(dec.in, e).loc.functions["regexMatch"] = UserFunction
    /\ dec.out.err = Nil /\ ~dec.out.ok

\* ----------------------------------------------------- JSON requests

\* Requests whose subject, or subject and object, are JSON objects, for
\* matchers that read one or two paths of them.
JsonCalls ==
    {EnforceCall(M_JSON, FALSE, NoContext, <<J_ALICE, "data1">>),
     EnforceCall(M_JSON2, FALSE, NoContext, <<J_ALICE, J_DATA1>>)}

NextJson ==
    \/ \E c \in JsonCalls : Enforce(c.matcher, c.explains, c.ctx, c.rvals)
    \/ \E b \in BOOLEAN : EnableAcceptJsonRequest(b)
    \/ \E content \in {C_RBAC, C_HIER} : LoadPolicy(Oracle0, content)
    \/ \E m \in Models : SetModel(m)

SpecJson == Init /\ [][NextJson]_vars

\* The token tok of a source reads a path of a request value: its
\* attribute is a token of the request assertion that has a value.
ReadsRequestPath(tok, rTokens, rvals) ==
    /\ tok.k = "path"
    /\ TokenIndex(rTokens, tok.n) # -1
    /\ TokenIndex(rTokens, tok.n) < Len(rvals)

\* C25 (as stated): with accept_json_request enabled, the source a decision
\* compiles holds no access to a path of a request value any more,
\* whichever and however many paths the matcher reads.
C25_NoRequestPathRemains ==
    (Decided /\ e.enabled /\ e.acceptJsonRequest /\ AtLookup(dec.in, e).pc = "load") =>
        \A i \in 1..Len(AtLookup(dec.in, e).loc.expString) :
            ~ReadsRequestPath(AtLookup(dec.in, e).loc.expString[i],
                              AtLookup(dec.in, e).loc.rTokens, dec.in.rvals)

\* ------------------------------- a decision beside an emptied table

\* The store is emptied and filled again.
EmptiedContents == {C_EMPTY, C_RBAC}

\* A goroutine in enforce, another in LoadPolicy of a store that may be empty.
NextEmptied ==
    \/ \E c \in ConcCalls : EnforceBegin(c)
    \/ EnforceNext
    \/ \E content \in EmptiedContents : LoadBegin(content)
    \/ LoadNext

SpecEmptied == Init /\ [][NextEmptied]_vars

\* C27 (as stated): a decision of an enabled Enforcer that returned true
\* called the effect aggregator, and the last call returned Allow.
C27_TrueOnlyByAggregator ==
    (Decided /\ e.enabled /\ dec.out.ok) =>
        /\ dec.agg # << >>
        /\ dec.agg[Len(dec.agg)] = Allow

\* -------------------------------- a decision beside a table that grows

\* Enforce(admin, data1): the tuple of admin permits it, in the store
\* C_RBAC and, after the tuple of alice, in the store C_HIER.
GrownCalls == {EnforceCall(NoMatcher, x, NoContext, <<"admin", "data1">>) : x \in BOOLEAN}

NextGrown ==
    \/ \E c \in GrownCalls : EnforceBegin(c)
    \/ EnforceNext
    \/ \E content \in ConcContents : LoadBegin(content)
    \/ LoadNext

SpecGrown == Init /\ [][NextGrown]_vars

\* C28 (as stated): the index of the tuple a decision is about to evaluate
\* is smaller than the length of the arrays it allocated before the loop,
\* and a decision beside a LoadPolicy call does not end in a recovered panic.
C28_IndexWithinArrays ==
    /\ dec.pc = "iter" => dec.loc.policyIndex < dec.loc.policyLen
    /\ (Decided /\ gh.overlap) => dec.out.err # ErrPanic

\* ------------------------------------------------ errors and results

\* C29: an enforce call that returns an error, the error made of a
\* recovered panic included, returns false with it.
C29_ErrorMeansFalse ==
    (Decided /\ dec.out.err # Nil) => ~dec.out.ok

\* C29, its case: a call naming a policy assertion the model does not
\* declare panics on the nil assertion; the panic is recovered and
\* returned as the error, with false.
C29_Witness ==
    /\ Decided /\ e.enabled
    /\ dec.in.ctx.PType \notin DOMAIN e.model.p
    /\ dec.out.err = ErrPanic
    /\ ~dec.out.ok

\* ------------------------------------------- the toggles and the model

\* The toggles of the Enforcer E and whether it holds a watcher.
Toggles(E) ==
    <<E.enabled, E.autoSave, E.autoBuildRoleLinks, E.autoNotifyWatcher,
      E.autoNotifyDispatcher, E.acceptJsonRequest, E.watcher>>

\* C30 (as stated): a SetModel call (and a LoadModel call, which goes
\* through the same initialize) leaves the six toggles and the watcher of
\* the Enforcer as they were before it.
C30_SetModelKeepsToggles ==
    [][(\E m \in Models : SetModel(m)) => Toggles(e') = Toggles(e)]_vars

====
